---- MODULE Spec2Model ----
(***************************************************************************)
(* Model of the AI gallery worker (src/src/worker.js, and the later copy   *)
(* of the same handler in src/unnamed/part_000): the POST /api/generate    *)
(* admission and fulfilment pipeline, the Upstash counter store it uses    *)
(* for rate limiting and the spend ledger, and the R2 object store.        *)
(*                                                                         *)
(* One handler run is cut at its awaits: every action is the code that     *)
(* runs between two awaits of one request, so concurrent requests          *)
(* interleave exactly where the event loop lets them.                      *)
(***************************************************************************)
EXTENDS Integers, Sequences, FiniteSets, TLC

\* a header or field that is absent (null / undefined); never equal to a string
Null == <<"null">>

(***************************************************************************)
(* SECURITY_CONFIG and the other literals of the handler.                  *)
(***************************************************************************)
MAX_PROMPT_LENGTH == 500
MIN_PROMPT_LENGTH == 3
MAX_REQUEST_SIZE == 10000
GLOBAL_RATE_LIMIT == 100
IP_RATE_LIMIT == 10
MAX_IMAGE_BYTES == 5242880
\* window lengths and key lifetimes, in milliseconds
IP_WINDOW_MS == 60000
GLOBAL_WINDOW_MS == 3600000
DAY_MS == 86400000
SPEND_TTL_MS == 172800000

BLOCKED_WORDS ==
  << <<"n","u","d","e">>, <<"n","s","f","w">>, <<"n","a","k","e","d">>,
     <<"p","o","r","n">>, <<"x","x","x">>, <<"s","e","x">>,
     <<"e","x","p","l","i","c","i","t">>, <<"g","o","r","e">>,
     <<"v","i","o","l","e","n","c","e">>, <<"k","i","l","l">>,
     <<"d","e","a","t","h">>, <<"s","u","i","c","i","d","e">>,
     <<"w","e","a","p","o","n">> >>

(***************************************************************************)
(* Strings are sequences of one-character strings.                         *)
(***************************************************************************)
UpperChars ==
  <<"A","B","C","D","E","F","G","H","I","J","K","L","M",
    "N","O","P","Q","R","S","T","U","V","W","X","Y","Z">>
LowerChars ==
  <<"a","b","c","d","e","f","g","h","i","j","k","l","m",
    "n","o","p","q","r","s","t","u","v","w","x","y","z">>
WhiteSpace == {" ", "\t", "\n"}

\* String.prototype.toLowerCase, one character
ToLowerChar(c) ==
  IF \E i \in 1..26 : UpperChars[i] = c
    THEN LowerChars[CHOOSE i \in 1..26 : UpperChars[i] = c]
    ELSE c

\* String.prototype.toLowerCase
ToLowerCase(s) == [i \in 1..Len(s) |-> ToLowerChar(s[i])]

\* String.prototype.trim: drops the white space at both ends
Trim(s) ==
  LET idx == {i \in 1..Len(s) : s[i] \notin WhiteSpace}
  IN IF idx = {} THEN <<>>
     ELSE SubSeq(s, CHOOSE i \in idx : \A j \in idx : i <= j,
                    CHOOSE i \in idx : \A j \in idx : i >= j)

\* String.prototype.includes
Includes(s, w) ==
  \E i \in 0..(Len(s) - Len(w)) : SubSeq(s, i + 1, i + Len(w)) = w

\* n copies of the character c
Rep(c, n) == [i \in 1..n |-> c]

(***************************************************************************)
(* IEEE-754 doubles of the spend ledger.  A ledger value is a non-negative *)
(* double below 16; it is written as the integer value * 2^60 in four      *)
(* base-2^16 limbs, least significant first (every double in [2^-8, 16)    *)
(* is a multiple of 2^-60).  Addition is exact addition followed by the    *)
(* rounding to 53 significant bits, ties to even, that the hardware does.  *)
(***************************************************************************)
LimbBase == 65536

FZero == <<0, 0, 0, 0>>
\* 0.004 = 0x1.0624dd2f1a9fcp-8
COST_PER_IMAGE == <<43516, 54001, 25165, 16>>
\* 10.00
DAILY_SPENDING_CAP == <<0, 0, 0, 40960>>

\* number of bits of the natural number n < 2^16
BitLen(n) == IF n = 0 THEN 0 ELSE CHOOSE b \in 1..16 : 2^(b-1) <= n /\ n < 2^b

\* index (from 0) of the highest set bit of x, -1 for zero
TopBit(x) ==
  IF x[4] # 0 THEN 48 + BitLen(x[4]) - 1
  ELSE IF x[3] # 0 THEN 32 + BitLen(x[3]) - 1
  ELSE IF x[2] # 0 THEN 16 + BitLen(x[2]) - 1
  ELSE BitLen(x[1]) - 1

\* exact sum of two limb vectors (the sums of this model stay below 2^64)
LimbAdd(a, b) ==
  LET s1 == a[1] + b[1]
      s2 == a[2] + b[2] + (s1 \div LimbBase)
      s3 == a[3] + b[3] + (s2 \div LimbBase)
      s4 == a[4] + b[4] + (s3 \div LimbBase)
  IN << s1 % LimbBase, s2 % LimbBase, s3 % LimbBase, s4 % LimbBase >>

\* round to 53 significant bits, ties to even
Round53(x) ==
  LET p == TopBit(x)
  IN IF p <= 52 THEN x
     ELSE LET k    == p - 52
              unit == 2^k
              r    == x[1] % unit
              low  == << x[1] - r, x[2], x[3], x[4] >>
              odd  == IF k = 16 THEN x[2] % 2 = 1
                                ELSE (x[1] \div unit) % 2 = 1
              up   == r > unit \div 2 \/ (r = unit \div 2 /\ odd)
          IN IF up THEN LimbAdd(low, <<unit, 0, 0, 0>>) ELSE low

\* a + b of two doubles
FAdd(a, b) == Round53(LimbAdd(a, b))

\* a >= b of two doubles
FGeq(a, b) ==
  \/ a = b
  \/ \E i \in 1..4 : a[i] > b[i] /\ \A j \in (i+1)..4 : a[j] = b[j]


\* x after n ledger additions of COST_PER_IMAGE.  The recursion halves n, and
\* the test h = h has the first half computed before the second is entered,
\* so the evaluation never nests more than a few levels.
RECURSIVE AddCostTimes(_, _)
AddCostTimes(n, x) ==
  IF n = 0 THEN x
  ELSE IF n % 2 = 1 THEN FAdd(AddCostTimes(n - 1, x), COST_PER_IMAGE)
  ELSE LET h == AddCostTimes(n \div 2, x)
       IN IF h = h THEN AddCostTimes(n \div 2, h) ELSE h

(***************************************************************************)
(* Number.parseInt of a header value: leading white space, an optional     *)
(* sign, an optional 0x prefix, then the longest prefix of digits; NaN     *)
(* when there is no digit.                                                 *)
(***************************************************************************)
DecDigits == <<"0","1","2","3","4","5","6","7","8","9">>
HexDigits == DecDigits \o <<"a","b","c","d","e","f">>

DigitVal(c, radix) ==
  LET l == ToLowerChar(c)
  IN IF \E i \in 1..radix : HexDigits[i] = l
       THEN (CHOOSE i \in 1..radix : HexDigits[i] = l) - 1
       ELSE -1

RECURSIVE ParseDigits(_, _, _, _)
ParseDigits(s, i, radix, acc) ==
  IF i > Len(s) \/ DigitVal(s[i], radix) < 0 THEN acc
  ELSE ParseDigits(s, i + 1, radix, acc * radix + DigitVal(s[i], radix))

ParseInt(str) ==
  LET t     == Trim(str)
      neg   == Len(t) >= 1 /\ t[1] = "-"
      u     == IF Len(t) >= 1 /\ t[1] \in {"-", "+"} THEN Tail(t) ELSE t
      hex   == Len(u) >= 2 /\ u[1] = "0" /\ u[2] \in {"x", "X"}
      v     == IF hex THEN Tail(Tail(u)) ELSE u
      radix == IF hex THEN 16 ELSE 10
      nan   == Len(v) = 0 \/ DigitVal(v[1], radix) < 0
      mag   == IF nan THEN 0 ELSE ParseDigits(v, 1, radix, 0)
  IN [nan |-> nan, v |-> IF neg THEN 0 - mag ELSE mag]

(***************************************************************************)
(* Time.  The clock is Date.now() in milliseconds.                         *)
(***************************************************************************)
\* Math.floor(Date.now() / windowDuration): the fixed window of an instant
Bucket(t, window) == t \div window

\* new Date().toISOString().split('T')[0]: the UTC calendar day
UtcDate(t) == t \div DAY_MS

\* new Date().toISOString() with ':' and '.' replaced by '-': the fields
\* day, hour, minute, second, millisecond that the text is made of
IsoTimestamp(t) ==
  << t \div DAY_MS, (t % DAY_MS) \div 3600000,
     (t % 3600000) \div 60000, (t % 60000) \div 1000, t % 1000 >>

(***************************************************************************)
(* The counter store (Upstash Redis): key -> [val, exp].                   *)
(***************************************************************************)
\* prefix "rl:ip", identifier ip, fixed window of one minute
IpKey(ip, t) == << "rl:ip", ip, Bucket(t, IP_WINDOW_MS) >>
\* prefix "rl:global", identifier "all", fixed window of one hour
GlobalKey(t) == << "rl:global", <<"a","l","l">>, Bucket(t, GLOBAL_WINDOW_MS) >>
\* `spend:${today}`
SpendKey(t) == << "spend", <<>>, UtcDate(t) >>

\* keys whose lifetime has ended are gone
RedisExpire(r, t) ==
  LET live == {k \in DOMAIN r : r[k].exp > t}
  IN [k \in live |-> r[k]]

\* a script that sets the counter on the first call and never adds to it
RedisIncrOnce(r, key, t, ttl) ==
  IF key \in DOMAIN r
    THEN r
    ELSE [k \in DOMAIN r \cup {key} |->
            IF k = key THEN [val |-> 1, exp |-> t + ttl] ELSE r[k]]

\* the limiter's script: INCR, and PEXPIRE on the first increment
RedisIncr(r, key, t, ttl) ==
  IF key \in DOMAIN r
    THEN [r EXCEPT ![key].val = @ + 1]
    ELSE [k \in DOMAIN r \cup {key} |->
            IF k = key THEN [val |-> 1, exp |-> t + ttl] ELSE r[k]]

RedisHas(r, key) == key \in DOMAIN r

\* SET key val EX ttl
RedisSet(r, key, val, t, ttl) ==
  [k \in DOMAIN r \cup {key} |->
     IF k = key THEN [val |-> val, exp |-> t + ttl] ELSE r[k]]

\* parseFloat(await redis.get(spendKey) || "0")
ReadSpend(r, key) == IF key \in DOMAIN r THEN r[key].val ELSE FZero

(***************************************************************************)
(* The admission policies of the handler.                                  *)
(***************************************************************************)
Falsy(h) == h = Null \/ h = <<>>

\* the size check with the cap itself turned away
RequestTooLargeInclusive(contentLength) ==
  /\ ~Falsy(contentLength)
  /\ ~ParseInt(contentLength).nan
  /\ ParseInt(contentLength).v >= MAX_REQUEST_SIZE

\* contentLength && parseInt(contentLength) > MAX_REQUEST_SIZE
RequestTooLarge(contentLength) ==
  /\ ~Falsy(contentLength)
  /\ ~ParseInt(contentLength).nan
  /\ ParseInt(contentLength).v > MAX_REQUEST_SIZE

\* origin?.includes(url.host) || referer?.includes(url.host)
IsSameOrigin(origin, referer, host) ==
  \/ origin # Null /\ Includes(origin, host)
  \/ referer # Null /\ Includes(referer, host)

\* !isSameOrigin && (!apiKey || apiKey !== env.DEMO_API_KEY)
Unauthorized(req, e) ==
  /\ ~IsSameOrigin(req.origin, req.referer, req.host)
  /\ (Falsy(req.apiKey) \/ req.apiKey # e.DEMO_API_KEY)

\* the guard written with || in place of &&
ConfiguredEither(e) == e.UPSTASH_REDIS_REST_URL \/ e.UPSTASH_REDIS_REST_TOKEN

\* env.UPSTASH_REDIS_REST_URL && env.UPSTASH_REDIS_REST_TOKEN
Configured(e) == e.UPSTASH_REDIS_REST_URL /\ e.UPSTASH_REDIS_REST_TOKEN

\* request.headers.get("cf-connecting-ip") || "unknown"
CallerIp(req) ==
  IF Falsy(req.ip) THEN <<"u","n","k","n","o","w","n">> ELSE req.ip

\* a limiter that lets one request too many through
LimiterSuccessOffByOne(used, tokens) == used <= tokens + 1

\* a limiter that stops one request too early
LimiterSuccessStrict(used, tokens) == used < tokens

\* usedTokensAfterUpdate <= tokens
LimiterSuccess(used, tokens) == used <= tokens

\* dailySpend >= SECURITY_CONFIG.DAILY_SPENDING_CAP
BudgetExceeded(dailySpend) == FGeq(dailySpend, DAILY_SPENDING_CAP)

\* !prompt || prompt.length < MIN_PROMPT_LENGTH
PromptTooShort(prompt) == Len(prompt) = 0 \/ Len(prompt) < MIN_PROMPT_LENGTH

\* the length check with >= in place of >
PromptTooLongInclusive(prompt) == Len(prompt) >= MAX_PROMPT_LENGTH

\* prompt.length > MAX_PROMPT_LENGTH
PromptTooLong(prompt) == Len(prompt) > MAX_PROMPT_LENGTH

\* the content filter without the toLowerCase
FoundBlockedWordCaseSensitive(prompt) ==
  \E i \in 1..Len(BLOCKED_WORDS) : Includes(prompt, BLOCKED_WORDS[i])

\* BLOCKED_WORDS.find(word => promptLower.includes(word))
FoundBlockedWord(prompt) ==
  \E i \in 1..Len(BLOCKED_WORDS) : Includes(ToLowerCase(prompt), BLOCKED_WORDS[i])

\* the size check left out
ImageNeverTooLarge(size) == FALSE

\* the size check with >= in place of >
ImageTooLargeInclusive(size) == size >= MAX_IMAGE_BYTES

\* imageBytes.length > 5 * 1024 * 1024
ImageTooLarge(size) == size > MAX_IMAGE_BYTES


(***************************************************************************)
(* The catch block of the generation try: the response chosen from the     *)
(* message of whatever was thrown inside it.                               *)
(***************************************************************************)
\* error.message?.includes(pattern)
MessageIncludes(msg, pattern) == msg # Null /\ Includes(msg, pattern)

Response(status, error, hasMessage) ==
  [status |-> status, error |-> error, message |-> hasMessage,
   remaining |-> -1, reset |-> -1,
   prompt |-> Null, latestUrl |-> Null, historyUrl |-> Null]

CatchResponse(msg) ==
  IF MessageIncludes(msg, <<"i","n","s","u","f","f","i","c","i","e","n","t","_","c","r","e","d","i","t","s">>) \/ MessageIncludes(msg, <<"4","0","2">>)
    THEN Response(402, "insufficient_credits", TRUE)
  ELSE IF MessageIncludes(msg, <<"t","i","m","e","o","u","t">>) \/ MessageIncludes(msg, <<"E","T","I","M","E","D","O","U","T">>)
    THEN Response(504, "timeout", TRUE)
  ELSE IF MessageIncludes(msg, <<"r","a","t","e","_","l","i","m","i","t">>) \/ MessageIncludes(msg, <<"4","2","9">>)
    THEN Response(429, "ai_provider_rate_limit", TRUE)
  ELSE IF MessageIncludes(msg, <<"i","n","v","a","l","i","d","_","p","r","o","m","p","t">>) \/ MessageIncludes(msg, <<"4","0","0">>)
    THEN Response(400, "invalid_prompt_for_provider", TRUE)
  ELSE Response(500, "generation_failed", TRUE)

\* the runtime's answer when the handler throws outside every try
UnhandledException == Response(500, "unhandled_exception", FALSE)

(***************************************************************************)
(* The object store (R2 bucket ART): key -> object.                        *)
(***************************************************************************)
\* `art/latest.jpg`
LatestKey == << "art/latest.jpg", <<>> >>
\* `art/${timestamp}.jpg`
HistoryKey(t) == << "art/", IsoTimestamp(t) >>

\* a put that keeps the object a key already has
ArtPutIfAbsent(store, key, bytes, size, cacheControl, t) ==
  [k \in DOMAIN store \cup {key} |->
     IF k = key /\ k \notin DOMAIN store
       THEN [bytes |-> bytes, size |-> size, contentType |-> "image/jpeg",
             cacheControl |-> cacheControl, uploaded |-> t]
       ELSE store[k]]

\* env.ART.put(key, imageBytes, { httpMetadata })
ArtPut(store, key, bytes, size, cacheControl, t) ==
  [k \in DOMAIN store \cup {key} |->
     IF k = key
       THEN [bytes |-> bytes, size |-> size, contentType |-> "image/jpeg",
             cacheControl |-> cacheControl, uploaded |-> t]
       ELSE store[k]]

\* the path of `${origin}/${key}`
UrlPath(key) == <<"/">> \o key

\* url.pathname.startsWith("/art/")
StartsWithArt(path) ==
  Len(path) >= 2 /\ path[1] = "/" /\ path[2] \in {"art/", "art/latest.jpg"}

\* the key taken to be the whole path, leading slash included
PathKeyWhole(path) == path

\* url.pathname.slice(1)
PathKey(path) == Tail(path)

\* `${origin}/art/latest.jpg`, `${origin}/${historyKey}`, prompt
SuccessResponse(prompt, historyKey) ==
  [Response(200, "none", FALSE) EXCEPT
     !.prompt = prompt, !.latestUrl = <<"/", "art/latest.jpg", <<>> >>,
     !.historyUrl = UrlPath(historyKey)]

\* the Access-Control-* headers of an answer
NoCors ==
  [allowOrigin |-> "none", allowMethods |-> "none", allowHeaders |-> "none",
   maxAge |-> "none"]

\* the answers of the routes other than POST /api/generate
NoGet ==
  [n |-> 0, method |-> "none", path |-> Null, status |-> 0, body |-> "none",
   bytes |-> 0, contentType |-> "none", cacheControl |-> "none", cors |-> NoCors,
   listing |-> <<>>]

ImageNotFound(n, path) ==
  [NoGet EXCEPT !.n = n, !.method = "GET", !.path = path, !.status = 404,
                !.body = "Image not found"]

ImageResponse(n, path, object) ==
  [n |-> n, method |-> "GET", path |-> path, status |-> 200, body |-> "object",
   bytes |-> object.bytes, contentType |-> object.contentType,
   cacheControl |-> object.cacheControl,
   cors |-> [NoCors EXCEPT !.allowOrigin = "*"], listing |-> <<>>]

\* the copy of the worker with the preflight route answers every OPTIONS
\* request before it looks at the path
CorsPreflight(n, path) ==
  [NoGet EXCEPT !.n = n, !.method = "OPTIONS", !.path = path, !.status = 204,
                !.cors = [allowOrigin |-> "*",
                          allowMethods |-> "GET, POST, OPTIONS",
                          allowHeaders |-> "Content-Type, X-API-Key",
                          maxAge |-> "86400"]]

\* the default route: a request that no route has taken
NotFound(n, method, path) ==
  [NoGet EXCEPT !.n = n, !.method = method, !.path = path, !.status = 404,
                !.body = "Not found"]

(***************************************************************************)
(* State.  The clock counts the milliseconds since a UTC midnight, which   *)
(* is where the minute, hour and day windows of Date.now() all start.      *)
(***************************************************************************)
VARIABLES
  now,         \* Date.now()
  env,         \* the bindings of the deployment
  redis,       \* the counter store
  art,         \* the object store
  slots,       \* the requests in flight, one handler run per slot
  started,     \* number of requests received so far
  ipCalls,     \* history: per caller, the instants of its per-caller limiter calls
  globalCalls, \* history: the instants of the global limiter calls
  generated,   \* history: per UTC day, the generations that returned an image
  successes,   \* history: the 200 responses in the order they were issued
  served       \* the answer of the latest GET /art/<key>

vars == << now, env, redis, art, slots, started, ipCalls, globalCalls, generated,
           successes, served >>

\* number of handler runs that can be in flight together
NumSlots == 2
Slots == 1..NumSlots

NoRequest ==
  [host |-> Null, contentLength |-> Null, origin |-> Null, referer |-> Null,
   apiKey |-> Null, ip |-> Null, body |-> [json |-> "none", t |-> "absent", s |-> <<>>]]

NoKey == << "none", <<>>, 0 >>
\* no answer of the provider yet
NoReply == [kind |-> "none", status |-> 0, body |-> "none", size |-> 0, msg |-> Null]
NoResponse == Response(0, "pending", FALSE)

IdleSlot ==
  [pc |-> "idle", id |-> 0, req |-> NoRequest, passed |-> <<>>,
   ipKey |-> NoKey, ipUsed |-> 0, ipSeen |-> 0,
   globalKey |-> NoKey, globalUsed |-> 0, globalSeen |-> 0,
   checkKey |-> NoKey, dailySpend |-> FZero, genAtCheck |-> -1,
   prompt |-> Null, gens |-> 0, bytes |-> 0, size |-> 0,
   spendKey |-> NoKey, currentSpend |-> FZero, wrote |-> 0,
   historyKey |-> Null, putH |-> "none", putL |-> "none",
   reply |-> NoReply, resp |-> NoResponse]

EmptyStore == [k \in {} |-> 0]

\* the handler returns resp
Return(sl, resp) == [sl EXCEPT !.pc = "done", !.resp = resp]

\* history bookkeeping
CallsOf(ip) == IF ip \in DOMAIN ipCalls THEN ipCalls[ip] ELSE <<>>
NoteIpCall(ip, t) ==
  [i \in DOMAIN ipCalls \cup {ip} |-> IF i = ip THEN Append(CallsOf(ip), t) ELSE ipCalls[i]]
\* how many of the instants of calls lie in the fixed window of t
InWindow(calls, t, window) ==
  Cardinality({i \in 1..Len(calls) : calls[i] \div window = t \div window})
GeneratedOn(day) == IF day \in DOMAIN generated THEN generated[day] ELSE 0
NoteGenerated(day) ==
  [d \in DOMAIN generated \cup {day} |-> IF d = day THEN GeneratedOn(day) + 1 ELSE generated[d]]

(***************************************************************************)
(* POST /api/generate, cut at its awaits.                                  *)
(***************************************************************************)
\* the handler with the authentication check placed before the size check
StartAuthFirst(s, req) ==
  /\ slots[s].pc = "idle"
  /\ started' = started + 1
  /\ LET sl == [IdleSlot EXCEPT !.id = started + 1, !.req = req]
     IN slots' = [slots EXCEPT ![s] =
          IF Unauthorized(req, env)
            THEN Return(sl, Response(401, "unauthorized", FALSE))
          ELSE IF RequestTooLarge(req.contentLength)
            THEN Return([sl EXCEPT !.passed = <<"auth">>],
                        Response(413, "request_too_large", TRUE))
          ELSE IF Configured(env)
            THEN [sl EXCEPT !.pc = "ipLimit", !.passed = <<"auth", "size">>]
          ELSE [sl EXCEPT !.pc = "json", !.passed = <<"auth", "size">>]]
  /\ UNCHANGED << now, env, redis, art, ipCalls, globalCalls, generated, successes, served >>

\* the handler counting the caller in its minute before it turns away a
\* request that is not authenticated
StartCountingUnauthorized(s, req) ==
  /\ slots[s].pc = "idle"
  /\ started' = started + 1
  /\ LET sl == [IdleSlot EXCEPT !.id = started + 1, !.req = req]
     IN slots' = [slots EXCEPT ![s] =
          IF RequestTooLarge(req.contentLength)
            THEN Return(sl, Response(413, "request_too_large", TRUE))
          ELSE IF Unauthorized(req, env)
            THEN Return([sl EXCEPT !.passed = <<"size">>],
                        Response(401, "unauthorized", FALSE))
          ELSE IF Configured(env)
            THEN [sl EXCEPT !.pc = "ipLimit", !.passed = <<"size", "auth">>]
          ELSE [sl EXCEPT !.pc = "json", !.passed = <<"size", "auth">>]]
  /\ redis' = IF ~RequestTooLarge(req.contentLength) /\ Unauthorized(req, env)
                    /\ Configured(env)
                THEN RedisIncr(redis, IpKey(CallerIp(req), now), now, IP_WINDOW_MS)
                ELSE redis
  /\ UNCHANGED << now, env, art, ipCalls, globalCalls, generated, successes, served >>

\* the handler reading and validating the body before any limiter is called
StartParseFirst(s, req) ==
  /\ slots[s].pc = "idle"
  /\ started' = started + 1
  /\ LET sl == [IdleSlot EXCEPT !.id = started + 1, !.req = req]
     IN slots' = [slots EXCEPT ![s] =
          IF RequestTooLarge(req.contentLength)
            THEN Return(sl, Response(413, "request_too_large", TRUE))
          ELSE IF Unauthorized(req, env)
            THEN Return([sl EXCEPT !.passed = <<"size">>],
                        Response(401, "unauthorized", FALSE))
          ELSE [sl EXCEPT !.pc = "json", !.passed = <<"size", "auth">>]]
  /\ UNCHANGED << now, env, redis, art, ipCalls, globalCalls, generated, successes, served >>

\* lines 24-64: size check, authentication, then the first limiter call
Start(s, req) ==
  /\ slots[s].pc = "idle"
  /\ started' = started + 1
  /\ LET sl == [IdleSlot EXCEPT !.id = started + 1, !.req = req]
     IN slots' = [slots EXCEPT ![s] =
          IF RequestTooLarge(req.contentLength)
            THEN Return(sl, Response(413, "request_too_large", TRUE))
          ELSE IF Unauthorized(req, env)
            THEN Return([sl EXCEPT !.passed = <<"size">>],
                        Response(401, "unauthorized", FALSE))
          ELSE IF Configured(env)
            THEN [sl EXCEPT !.pc = "ipLimit", !.passed = <<"size", "auth">>]
          ELSE [sl EXCEPT !.pc = "json", !.passed = <<"size", "auth">>]]
  /\ UNCHANGED << now, env, redis, art, ipCalls, globalCalls, generated, successes, served >>

\* lines 54-86: ipLimiter.limit(ip) counts the request in the caller's
\* window; on success the global limiter is called
IpLimit(s) ==
  /\ slots[s].pc = "ipLimit"
  /\ LET key  == IpKey(CallerIp(slots[s].req), now)
         r    == RedisIncr(redis, key, now, IP_WINDOW_MS)
         used == r[key].val
         seen == InWindow(CallsOf(CallerIp(slots[s].req)), now, IP_WINDOW_MS) + 1
         sl   == [slots[s] EXCEPT !.ipSeen = seen]
     IN /\ redis' = r
        /\ ipCalls' = NoteIpCall(CallerIp(sl.req), now)
        /\ slots' = [slots EXCEPT ![s] =
             IF ~LimiterSuccess(used, IP_RATE_LIMIT)
               THEN Return([sl EXCEPT !.ipKey = key, !.ipUsed = used],
                      [Response(429, "rate_limit_exceeded", TRUE) EXCEPT
                         !.remaining = IF IP_RATE_LIMIT - used > 0
                                         THEN IP_RATE_LIMIT - used ELSE 0,
                         !.reset = (key[3] + 1) * IP_WINDOW_MS])
               ELSE [sl EXCEPT !.pc = "globalLimit", !.ipKey = key,
                               !.ipUsed = used, !.passed = Append(@, "ip")]]
  /\ UNCHANGED << now, env, art, started, globalCalls, generated, successes, served >>

\* lines 80-100: globalLimiter.limit("all") counts the request in the shared
\* window; on success today's ledger entry is asked for
GlobalLimit(s) ==
  /\ slots[s].pc = "globalLimit"
  /\ LET key  == GlobalKey(now)
         r    == RedisIncr(redis, key, now, GLOBAL_WINDOW_MS)
         used == r[key].val
         seen == InWindow(globalCalls, now, GLOBAL_WINDOW_MS) + 1
         sl   == [slots[s] EXCEPT !.globalSeen = seen]
     IN /\ redis' = r
        /\ globalCalls' = Append(globalCalls, now)
        /\ slots' = [slots EXCEPT ![s] =
             IF ~LimiterSuccess(used, GLOBAL_RATE_LIMIT)
               THEN Return([sl EXCEPT !.globalKey = key, !.globalUsed = used],
                           Response(429, "global_rate_limit_exceeded", TRUE))
               ELSE [sl EXCEPT !.pc = "budget", !.globalKey = key,
                               !.globalUsed = used,
                               !.passed = Append(@, "global"),
                               !.checkKey = SpendKey(now)]]
  /\ UNCHANGED << now, env, art, started, ipCalls, generated, successes, served >>

\* a budget check that holds the cap: the cost of the run and of every other
\* run let by and not yet charged is added to the value read
BudgetCheckReserving(s) ==
  /\ slots[s].pc = "budget"
  /\ LET sl         == slots[s]
         dailySpend == ReadSpend(redis, sl.checkKey)
         uncharged  == {r \in Slots \ {s} :
                          /\ slots[r].pc \in {"json", "generate", "ledgerGet", "ledgerSet"}
                          /\ slots[r].genAtCheck >= 0}
         seen       == [sl EXCEPT !.dailySpend = dailySpend,
                                  !.genAtCheck = GeneratedOn(sl.checkKey[3])]
     IN slots' = [slots EXCEPT ![s] =
          IF BudgetExceeded(AddCostTimes(Cardinality(uncharged) + 1, dailySpend))
            THEN Return(seen, Response(429, "daily_budget_exceeded", TRUE))
            ELSE [seen EXCEPT !.pc = "json", !.passed = Append(@, "budget")]]
  /\ UNCHANGED << now, env, redis, art, started, ipCalls, globalCalls, generated, successes, served >>

\* lines 100-116: redis.get(spendKey) answers; under the cap the body is read
BudgetCheck(s) ==
  /\ slots[s].pc = "budget"
  /\ LET sl         == slots[s]
         dailySpend == ReadSpend(redis, sl.checkKey)
         seen       == [sl EXCEPT !.dailySpend = dailySpend,
                                  !.genAtCheck = GeneratedOn(sl.checkKey[3])]
     IN slots' = [slots EXCEPT ![s] =
          IF BudgetExceeded(dailySpend)
            THEN Return(seen, Response(429, "daily_budget_exceeded", TRUE))
            ELSE [seen EXCEPT !.pc = "json", !.passed = Append(@, "budget")]]
  /\ UNCHANGED << now, env, redis, art, started, ipCalls, globalCalls, generated, successes, served >>

\* (body.prompt || ""): the value .trim() is called on; Null when the value
\* has no trim method
PromptValue(body) ==
  IF body.json = "object" /\ body.t = "string" THEN body.s
  ELSE IF body.json = "object" /\ body.t = "truthy" THEN Null
  ELSE <<>>

\* lines 116-168: request.json() answers; prompt validation and content
\* filter; then generateImage is called
ParseBody(s) ==
  /\ slots[s].pc = "json"
  /\ LET sl     == slots[s]
         body   == sl.req.body
         raw    == PromptValue(body)
         prompt == Trim(raw)
     IN slots' = [slots EXCEPT ![s] =
          IF body.json = "malformed"
            THEN Return(sl, Response(400, "invalid_json", TRUE))
          ELSE IF body.json = "null" \/ raw = Null
            THEN Return([sl EXCEPT !.passed = Append(@, "json")],
                        UnhandledException)
          ELSE IF PromptTooShort(prompt)
            THEN Return([sl EXCEPT !.passed = Append(@, "json"), !.prompt = prompt],
                        Response(400, "invalid_prompt", TRUE))
          ELSE IF PromptTooLong(prompt)
            THEN Return([sl EXCEPT !.passed = Append(@, "json"), !.prompt = prompt],
                        Response(400, "prompt_too_long", TRUE))
          ELSE IF FoundBlockedWord(prompt)
            THEN Return([sl EXCEPT !.passed = @ \o <<"json", "length">>,
                                   !.prompt = prompt],
                        Response(400, "inappropriate_prompt", TRUE))
          ELSE [sl EXCEPT !.pc = "generate", !.prompt = prompt,
                          !.passed = @ \o <<"json", "length", "content">>,
                          !.gens = @ + 1]]
  /\ UNCHANGED << now, env, redis, art, started, ipCalls, globalCalls, generated, successes, served >>

\* lines 196-215: the timestamp is taken and both puts are issued
IssuePuts(sl) ==
  [sl EXCEPT !.pc = "store", !.historyKey = HistoryKey(now),
             !.putH = "pending", !.putL = "pending"]

\* the handler calling generateImage again, up to three times, when it throws
GenerateRetry(s, out) ==
  /\ slots[s].pc = "generate"
  /\ LET sl  == slots[s]
         got == [sl EXCEPT !.bytes = sl.id, !.size = out.size]
     IN /\ slots' = [slots EXCEPT ![s] =
             IF ~out.ok /\ sl.gens < 3
               THEN [sl EXCEPT !.gens = @ + 1, !.reply = NoReply]
             ELSE IF ~out.ok THEN Return(sl, CatchResponse(out.msg))
             ELSE IF ImageTooLarge(out.size)
               THEN Return(got, Response(500, "image_too_large", TRUE))
             ELSE IF Configured(env)
               THEN [got EXCEPT !.pc = "ledgerGet", !.spendKey = SpendKey(now)]
             ELSE IssuePuts(got)]
        /\ generated' = IF out.ok /\ ~ImageTooLarge(out.size)
                          THEN NoteGenerated(UtcDate(now)) ELSE generated
  /\ UNCHANGED << now, env, redis, art, started, ipCalls, globalCalls, successes, served >>

\* lines 168-200: generateImage answers (bytes, or it throws)
Generate(s, out) ==
  /\ slots[s].pc = "generate"
  /\ LET sl  == slots[s]
         got == [sl EXCEPT !.bytes = sl.id, !.size = out.size]
     IN /\ slots' = [slots EXCEPT ![s] =
             IF ~out.ok THEN Return(sl, CatchResponse(out.msg))
             ELSE IF ImageTooLarge(out.size)
               THEN Return(got, Response(500, "image_too_large", TRUE))
             ELSE IF Configured(env)
               THEN [got EXCEPT !.pc = "ledgerGet", !.spendKey = SpendKey(now)]
             ELSE IssuePuts(got)]
        /\ generated' = IF out.ok /\ ~ImageTooLarge(out.size)
                          THEN NoteGenerated(UtcDate(now)) ELSE generated
  /\ UNCHANGED << now, env, redis, art, started, ipCalls, globalCalls, successes, served >>

\* lines 537-554: inside generateImage, the fetch of the provider's
\* text-to-image endpoint settles: the provider has answered, or the fetch
\* has been rejected
Fetch(s, reply) ==
  /\ slots[s].pc = "generate"
  /\ slots[s].reply = NoReply
  /\ slots' = [slots EXCEPT ![s].reply = reply]
  /\ UNCHANGED << now, env, redis, art, started, ipCalls, globalCalls, generated, successes, served >>

\* lines 189-190: redis.get(spendKey) of the ledger update answers
LedgerGet(s, out) ==
  /\ slots[s].pc = "ledgerGet"
  /\ LET sl == slots[s]
     IN slots' = [slots EXCEPT ![s] =
          IF ~out.ok THEN Return(sl, CatchResponse(out.msg))
          ELSE [sl EXCEPT !.pc = "ledgerSet",
                          !.currentSpend = ReadSpend(redis, sl.spendKey)]]
  /\ UNCHANGED << now, env, redis, art, started, ipCalls, globalCalls, generated, successes, served >>

\* the ledger update as one atomic increment of the stored value
LedgerSetAtomic(s, out) ==
  /\ slots[s].pc = "ledgerSet"
  /\ LET sl == slots[s]
     IN IF out.ok
          THEN /\ redis' = RedisSet(redis, sl.spendKey,
                                    FAdd(ReadSpend(redis, sl.spendKey), COST_PER_IMAGE),
                                    now, SPEND_TTL_MS)
               /\ slots' = [slots EXCEPT ![s] = IssuePuts([sl EXCEPT !.wrote = @ + 1])]
          ELSE /\ redis' = redis
               /\ slots' = [slots EXCEPT ![s] = Return(sl, CatchResponse(out.msg))]
  /\ UNCHANGED << now, env, art, started, ipCalls, globalCalls, generated, successes, served >>

\* lines 190-215: redis.set(spendKey, currentSpend + costPerImage) answers
LedgerSet(s, out) ==
  /\ slots[s].pc = "ledgerSet"
  /\ LET sl == slots[s]
     IN IF out.ok
          THEN /\ redis' = RedisSet(redis, sl.spendKey,
                                    FAdd(sl.currentSpend, COST_PER_IMAGE),
                                    now, SPEND_TTL_MS)
               /\ slots' = [slots EXCEPT ![s] = IssuePuts([sl EXCEPT !.wrote = @ + 1])]
          ELSE /\ redis' = redis
               /\ slots' = [slots EXCEPT ![s] = Return(sl, CatchResponse(out.msg))]
  /\ UNCHANGED << now, env, art, started, ipCalls, globalCalls, generated, successes, served >>

\* the two puts awaited with Promise.any: the first put that succeeds settles it
SettleAny(sl, out) ==
  IF sl.pc # "store" THEN sl
  ELSE IF sl.putH = "ok" \/ sl.putL = "ok"
    THEN Return(sl, SuccessResponse(sl.prompt, sl.historyKey))
  ELSE IF sl.putH = "failed" /\ sl.putL = "failed"
    THEN Return(sl, CatchResponse(out.msg))
  ELSE sl

\* Promise.all over the two puts: it rejects at the first put that fails and
\* resolves when both have succeeded; a response already given stays
Settle(sl, out) ==
  IF sl.pc # "store" THEN sl
  ELSE IF sl.putH = "failed" \/ sl.putL = "failed"
    THEN Return(sl, CatchResponse(out.msg))
  ELSE IF sl.putH = "ok" /\ sl.putL = "ok"
    THEN Return(sl, SuccessResponse(sl.prompt, sl.historyKey))
  ELSE sl

\* history bookkeeping: the run of slot sl has just been answered with 200
NoteSuccess(before, after) ==
  IF before.pc # "done" /\ after.pc = "done" /\ after.resp.status = 200
    THEN Append(successes, [id |-> after.id, historyUrl |-> after.resp.historyUrl])
    ELSE successes

\* lines 202-207: env.ART.put(historyKey, ...) completes or fails
PutHistory(s, out) ==
  /\ slots[s].putH = "pending"
  /\ LET sl    == slots[s]
         after == Settle([sl EXCEPT !.putH = IF out.ok THEN "ok" ELSE "failed"], out)
     IN /\ art' = IF out.ok
                    THEN ArtPut(art, sl.historyKey, sl.bytes, sl.size,
                                "public, max-age=31536000, immutable", now)
                    ELSE art
        /\ slots' = [slots EXCEPT ![s] = after]
        /\ successes' = NoteSuccess(sl, after)
  /\ UNCHANGED << now, env, redis, started, ipCalls, globalCalls, generated, served >>

\* lines 209-214: env.ART.put(latestKey, ...) completes or fails
PutLatest(s, out) ==
  /\ slots[s].putL = "pending"
  /\ LET sl    == slots[s]
         after == Settle([sl EXCEPT !.putL = IF out.ok THEN "ok" ELSE "failed"], out)
     IN /\ art' = IF out.ok
                    THEN ArtPut(art, LatestKey, sl.bytes, sl.size,
                                "no-store, max-age=0", now)
                    ELSE art
        /\ slots' = [slots EXCEPT ![s] = after]
        /\ successes' = NoteSuccess(sl, after)
  /\ UNCHANGED << now, env, redis, started, ipCalls, globalCalls, generated, served >>

\* the response has gone out and nothing of the run is pending
Release(s) ==
  /\ slots[s].pc = "done"
  /\ slots[s].putH # "pending" /\ slots[s].putL # "pending"
  /\ slots' = [slots EXCEPT ![s] = IdleSlot]
  /\ UNCHANGED << now, env, redis, art, started, ipCalls, globalCalls, generated, successes, served >>

(***************************************************************************)
(* GET /art/*, lines 267-282: the object under the path without its        *)
(* leading slash is served with its stored metadata, or 404 is answered.   *)
(***************************************************************************)
GetArt(path) ==
  /\ StartsWithArt(path)
  /\ LET key == PathKey(path)
     IN served' = IF key \in DOMAIN art
                    THEN ImageResponse(served.n + 1, path, art[key])
                    ELSE ImageNotFound(served.n + 1, path)
  /\ UNCHANGED << now, env, redis, art, slots, started, ipCalls, globalCalls,
                  generated, successes >>

(***************************************************************************)
(* GET /api/images/latest and GET /api/images, routes of the copy of the   *)
(* worker that has the preflight route.  env.ART.list returns the objects  *)
(* under the prefix in the order of their keys, at most limit of them.     *)
(***************************************************************************)
\* the instant a history key was made from
KeyInstant(key) ==
  key[2][1] * DAY_MS + key[2][2] * 3600000 + key[2][3] * 60000
    + key[2][4] * 1000 + key[2][5]

\* key a comes before key b in the order of their text: the digits of a
\* timestamp come before the l of latest.jpg
KeyBefore(a, b) ==
  IF a = LatestKey THEN FALSE
  ELSE IF b = LatestKey THEN TRUE
  ELSE KeyInstant(a) < KeyInstant(b)

RECURSIVE InKeyOrder(_)
InKeyOrder(keys) ==
  IF keys = {} THEN <<>>
  ELSE LET first == CHOOSE k \in keys : \A j \in keys \ {k} : KeyBefore(k, j)
       IN <<first>> \o InKeyOrder(keys \ {first})

\* env.ART.list({ prefix: "art/", limit }).objects
ArtList(store, limit) ==
  LET keys == InKeyOrder({k \in DOMAIN store : k[1] \in {"art/", "art/latest.jpg"}})
      n    == IF Len(keys) > limit THEN limit ELSE Len(keys)
  IN [i \in 1..n |-> [key |-> keys[i], uploaded |-> store[keys[i]].uploaded,
                      size |-> store[keys[i]].size]]

\* .filter(obj => obj.key !== "art/latest.jpg")
NotLatest(obj) == obj.key # LatestKey

\* a sort that puts the oldest upload first
RECURSIVE SortOldestFirst(_)
SortOldestFirst(objs) ==
  IF objs = <<>> THEN <<>>
  ELSE LET i == CHOOSE j \in 1..Len(objs) :
                  /\ \A k \in 1..Len(objs) : objs[k].uploaded >= objs[j].uploaded
                  /\ \A k \in 1..(j - 1) : objs[k].uploaded > objs[j].uploaded
       IN <<objs[i]>> \o SortOldestFirst(SubSeq(objs, 1, i - 1) \o SubSeq(objs, i + 1, Len(objs)))

\* .sort((a, b) => new Date(b.uploaded) - new Date(a.uploaded)): the sort is
\* stable, objects uploaded at the same instant keep their order
RECURSIVE SortNewestFirst(_)
SortNewestFirst(objs) ==
  IF objs = <<>> THEN <<>>
  ELSE LET i == CHOOSE j \in 1..Len(objs) :
                  /\ \A k \in 1..Len(objs) : objs[k].uploaded <= objs[j].uploaded
                  /\ \A k \in 1..(j - 1) : objs[k].uploaded < objs[j].uploaded
       IN <<objs[i]>> \o SortNewestFirst(SubSeq(objs, 1, i - 1) \o SubSeq(objs, i + 1, Len(objs)))

ImagesLatestPath == <<"/", "api/images/latest", <<>> >>
ImagesPath == <<"/", "api/images", <<>> >>

\* an answer of the two routes
ImagesAnswer(n, path, status, body, listing) ==
  [NoGet EXCEPT !.n = n, !.method = "GET", !.path = path, !.status = status,
                !.body = body, !.contentType = "application/json",
                !.cors = [NoCors EXCEPT !.allowOrigin = "*"], !.listing = listing]

\* GET /api/images/latest: the first of the listed objects other than
\* art/latest.jpg, newest upload first; out is what env.ART.list settles with
GetLatestImage(out) ==
  /\ LET n      == served.n + 1
         sorted == SortNewestFirst(SelectSeq(ArtList(art, 1000), NotLatest))
     IN served' =
          IF ~out.ok
            THEN ImagesAnswer(n, ImagesLatestPath, 500, "failed_to_get_latest", <<>>)
          ELSE IF sorted = <<>>
            THEN ImagesAnswer(n, ImagesLatestPath, 404, "no_images_found", <<>>)
          ELSE ImagesAnswer(n, ImagesLatestPath, 200, "image", <<sorted[1]>>)
  /\ UNCHANGED << now, env, redis, art, slots, started, ipCalls, globalCalls,
                  generated, successes >>

\* GET /api/images: the listed objects other than art/latest.jpg, newest
\* upload first
GetImages(out) ==
  /\ LET n      == served.n + 1
         sorted == SortNewestFirst(SelectSeq(ArtList(art, 100), NotLatest))
     IN served' =
          IF ~out.ok
            THEN ImagesAnswer(n, ImagesPath, 500, "failed_to_list_images", <<>>)
          ELSE ImagesAnswer(n, ImagesPath, 200, "images", sorted)
  /\ UNCHANGED << now, env, redis, art, slots, started, ipCalls, globalCalls,
                  generated, successes >>

(***************************************************************************)
(* POST /api/generate-sculpture, a route of the copy of the worker that    *)
(* has the preflight route, cut at its awaits.  The route starts with the  *)
(* body: it has no size check, no authentication, no limiter and no budget *)
(* check, and it does not touch the ledger.  Everything it throws is       *)
(* answered 500 generation_failed.                                         *)
(***************************************************************************)
\* `sculptures/sculpture-${timestamp}.glb`
SculptureKey(t) == << "sculptures/", IsoTimestamp(t) >>

\* env.ART.put(key, glbData, { httpMetadata })
GlbPut(store, key, bytes, size, t) ==
  [k \in DOMAIN store \cup {key} |->
     IF k = key
       THEN [bytes |-> bytes, size |-> size, contentType |-> "model/gltf-binary",
             cacheControl |-> "public, max-age=31536000, immutable", uploaded |-> t]
       ELSE store[k]]

\* the catch block of the route
SculptureFailed == Response(500, "generation_failed", TRUE)

\* response.ok
ReplyOk(reply) == reply.kind = "http" /\ reply.status \in 200..299

\* the request is received and request.json() is awaited
StartSculpture(s, req) ==
  /\ slots[s].pc = "idle"
  /\ started' = started + 1
  /\ slots' = [slots EXCEPT ![s] =
       [IdleSlot EXCEPT !.id = started + 1, !.req = req, !.pc = "sculptureJson"]]
  /\ UNCHANGED << now, env, redis, art, ipCalls, globalCalls, generated, successes, served >>

\* request.json() answers; body.prompt || "" is checked for its length, and
\* the text-to-image call is made
SculptureParse(s) ==
  /\ slots[s].pc = "sculptureJson"
  /\ LET sl   == slots[s]
         body == sl.req.body
     IN slots' = [slots EXCEPT ![s] =
          IF body.json = "malformed" \/ body.json = "null"
            THEN Return(sl, SculptureFailed)
          ELSE IF body.t # "truthy" /\ Len(PromptValue(body)) < 3
            THEN Return(sl, Response(400, "invalid_prompt", TRUE))
          ELSE [sl EXCEPT !.pc = "sculptureImage", !.prompt = PromptValue(body),
                          !.gens = @ + 1]]
  /\ UNCHANGED << now, env, redis, art, started, ipCalls, globalCalls, generated, successes, served >>

\* the text-to-image call settles; with an image the image-to-3D call is made
SculptureImage(s, reply) ==
  /\ slots[s].pc = "sculptureImage"
  /\ LET sl == slots[s]
     IN slots' = [slots EXCEPT ![s] =
          IF ~ReplyOk(reply) \/ reply.body # "artifacts"
            THEN Return(sl, SculptureFailed)
          ELSE [sl EXCEPT !.pc = "sculpture3d", !.gens = @ + 1]]
  /\ UNCHANGED << now, env, redis, art, started, ipCalls, globalCalls, generated, successes, served >>

\* the image-to-3D call settles; with a model the put is issued under the
\* key of the instant
Sculpture3d(s, reply) ==
  /\ slots[s].pc = "sculpture3d"
  /\ LET sl == slots[s]
     IN slots' = [slots EXCEPT ![s] =
          IF ~ReplyOk(reply)
            THEN Return(sl, SculptureFailed)
          ELSE [sl EXCEPT !.pc = "sculpturePut", !.bytes = sl.id, !.size = reply.size,
                          !.historyKey = SculptureKey(now)]]
  /\ UNCHANGED << now, env, redis, art, started, ipCalls, globalCalls, generated, successes, served >>

\* env.ART.put of the model completes or fails
SculpturePut(s, out) ==
  /\ slots[s].pc = "sculpturePut"
  /\ LET sl == slots[s]
     IN IF out.ok
          THEN /\ art' = GlbPut(art, sl.historyKey, sl.bytes, sl.size, now)
               /\ slots' = [slots EXCEPT ![s] =
                    Return(sl, [Response(200, "none", FALSE) EXCEPT
                                  !.prompt = sl.prompt,
                                  !.historyUrl = UrlPath(sl.historyKey)])]
          ELSE /\ art' = art
               /\ slots' = [slots EXCEPT ![s] = Return(sl, SculptureFailed)]
  /\ UNCHANGED << now, env, redis, started, ipCalls, globalCalls, generated, successes, served >>

\* an OPTIONS request for path.  The worker of src/worker.js has no route for
\* the method: every route it has asks for POST or GET, and the request
\* falls to the default 404.  The other copy of the worker has the preflight
\* route in front of all others.  hasPreflight says which copy is deployed.
Options(path, hasPreflight) ==
  /\ served' = IF hasPreflight
                 THEN CorsPreflight(served.n + 1, path)
                 ELSE NotFound(served.n + 1, "OPTIONS", path)
  /\ UNCHANGED << now, env, redis, art, slots, started, ipCalls, globalCalls,
                  generated, successes >>

\* the clock moves on to t; keys of the counter store expire
Tick(t) ==
  /\ t > now
  /\ now' = t
  /\ redis' = RedisExpire(redis, t)
  /\ UNCHANGED << env, art, slots, started, ipCalls, globalCalls, generated, successes, served >>


(***************************************************************************)
(* Deployments, requests and outcomes the model is run on.                 *)
(***************************************************************************)
Host == <<"a","r","t",".","d","e","v">>
Secret == <<"s","3","c","r","e","t">>
Ip1 == <<"1","0",".","0",".","0",".","1">>
Ip2 == <<"1","0",".","0",".","0",".","2">>

SameOrigin == <<"h","t","t","p","s",":","/","/","a","r","t",".","d","e","v">>
\* another site whose host name begins with the service's host name
LookalikeOrigin == <<"h","t","t","p","s",":","/","/","a","r","t",".","d","e","v",".","e","v","i","l",".","i","o">>
ForeignOrigin == <<"h","t","t","p","s",":","/","/","e","v","i","l",".","i","o">>
SameReferer == <<"h","t","t","p","s",":","/","/","a","r","t",".","d","e","v","/">>
\* a page of another site with the service's host name in its query string
LookalikeReferer == <<"h","t","t","p","s",":","/","/","e","v","i","l",".","i","o","/","?","u","=","a","r","t",".","d","e","v">>

Env(url, token, key) ==
  [UPSTASH_REDIS_REST_URL |-> url, UPSTASH_REDIS_REST_TOKEN |-> token,
   DEMO_API_KEY |-> key]

Envs ==
  { Env(TRUE, TRUE, Secret), Env(TRUE, TRUE, Null),
    Env(TRUE, FALSE, Secret), Env(FALSE, FALSE, Secret) }

Auth(origin, referer, apiKey) ==
  [origin |-> origin, referer |-> referer, apiKey |-> apiKey]

AuthCases ==
  { Auth(SameOrigin, Null, Null), Auth(Null, SameReferer, Null),
    Auth(Null, Null, Secret), Auth(ForeignOrigin, Null, Secret),
    Auth(Null, Null, Null), Auth(Null, Null, <<>>),
    Auth(ForeignOrigin, Null, <<"g","u","e","s","s">>),
    Auth(ForeignOrigin, Null, Null),
    Auth(LookalikeOrigin, Null, Null), Auth(Null, LookalikeReferer, Null) }

Body(json, t, str) == [json |-> json, t |-> t, s |-> str]
Text(str) == Body("object", "string", str)

ValidBody == Text(<<"c","u","b","i","s","t"," ","d","o","g">>)
MalformedBody == Body("malformed", "absent", <<>>)

LengthBodies ==
  { Text(<<>>), Text(<<" "," "," ">>), Text(<<"a","b">>), Text(<<" "," ","a","b"," ">>), Text(<<"a","b","c">>),
    Text(<<" ","a","b","c"," "," ">>), Text(Rep("a", MAX_PROMPT_LENGTH)),
    Text(<<" ">> \o Rep("a", MAX_PROMPT_LENGTH) \o <<" ", "\n">>),
    Text(Rep("a", MAX_PROMPT_LENGTH + 1)),
    Text(<<" ">> \o Rep("a", MAX_PROMPT_LENGTH + 1)) }

ContentBodies ==
  { Text(<<"k","i","l","l">>), Text(<<"a"," ","K","i","L","l"," ","s","h","o","t">>), Text(<<"s","k","i","l","l","e","d"," ","p","a","i","n","t","e","r">>), Text(<<"S","u","s","s","e","x"," ","c","o","a","s","t">>),
    Text(<<"c","a","t"," ","N","S","F","W">>), Text(<<"s","e"," ","x"," ","a","n","d"," ","k"," ","i","l","l">>), Text(<<"n","i","g","h","t"," ","c","i","t","y">>),
    Text(Rep("a", MAX_PROMPT_LENGTH - 3) \o <<"s","e","x">>),
    Text(Rep("a", MAX_PROMPT_LENGTH - 2) \o <<"x","x","x">>) }

OtherBodies ==
  { MalformedBody, Body("null", "absent", <<>>), Body("array", "absent", <<>>),
    Body("scalar", "absent", <<>>), Body("object", "absent", <<>>),
    Body("object", "falsy", <<>>), Body("object", "truthy", <<>>) }

Bodies == {ValidBody} \cup LengthBodies \cup ContentBodies \cup OtherBodies

Request(contentLength, auth, ip, body) ==
  [host |-> Host, contentLength |-> contentLength, origin |-> auth.origin,
   referer |-> auth.referer, apiKey |-> auth.apiKey, ip |-> ip, body |-> body]

SmallLength == <<"2","7">>
SizeCases == { Null, SmallLength, <<"1","0","0","0","0">>, <<"1","0","0","0","1">> }

\* requests that differ from a good one at one stage, and requests that are
\* bad at several stages together
Requests ==
     { Request(SmallLength, a, Ip1, ValidBody) : a \in AuthCases }
  \cup { Request(c, Auth(SameOrigin, Null, Null), Ip1, ValidBody) : c \in SizeCases }
  \cup { Request(SmallLength, Auth(Null, Null, Secret), i, ValidBody) : i \in {Ip2, Null} }
  \cup { Request(SmallLength, Auth(SameOrigin, Null, Null), Ip1, b) : b \in Bodies }
  \cup { Request(c, a, Ip1, b) :
           c \in {SmallLength, <<"1","0","0","0","1">>},
           a \in {Auth(SameOrigin, Null, Null), Auth(ForeignOrigin, Null, Null)},
           b \in {MalformedBody, Text(<<"a","b">>), Text(Rep("a", MAX_PROMPT_LENGTH + 1)),
                  Text(<<"k","i","l","l">>)} }

Ok == [ok |-> TRUE, size |-> 0, msg |-> Null]
Image(size) == [ok |-> TRUE, size |-> size, msg |-> Null]
Thrown(msg) == [ok |-> FALSE, size |-> 0, msg |-> msg]

GenOutcomes == { Image(1024), Thrown(<<"f","e","t","c","h"," ","f","a","i","l","e","d">>) }

\* what the fetch inside generateImage settles with: an answer of the
\* provider (its status, and a body that is JSON with artifacts, JSON without
\* them, or not JSON), or a rejection with the message of the runtime
HttpReply(status, body, size) ==
  [kind |-> "http", status |-> status, body |-> body, size |-> size, msg |-> Null]
FetchRejected(msg) ==
  [kind |-> "rejected", status |-> 0, body |-> "none", size |-> 0, msg |-> msg]

\* the message of the TypeError of data.artifacts[0] when data has no artifacts
NoArtifactsMessage ==
  <<"C","a","n","n","o","t"," ","r","e","a","d"," ","p","r","o","p","e","r","t","i","e","s"," ","o","f"," ","u","n","d","e","f","i","n","e","d"," ","(","r","e","a","d","i","n","g"," ","'","0","'",")">>
\* the message of the SyntaxError of response.json() on a body that is not JSON
NotJsonMessage ==
  <<"U","n","e","x","p","e","c","t","e","d"," ","t","o","k","e","n"," ","'","<","'",","," ","\"","<","h","t","m","l",">","\""," ","i","s"," ","n","o","t"," ","v","a","l","i","d"," ","J","S","O","N">>

\* lines 556-565: generateImage does not look at the status of the answer;
\* it parses the body as JSON, reads data.artifacts[0].base64 and returns the
\* decoded bytes
GenerateImage(reply) ==
  IF reply.kind = "rejected" THEN Thrown(reply.msg)
  ELSE IF reply.body = "text" THEN Thrown(NotJsonMessage)
  ELSE IF reply.body = "error" THEN Thrown(NoArtifactsMessage)
  ELSE Image(reply.size)

ProviderReplies ==
  { HttpReply(200, "artifacts", 1024),
    HttpReply(402, "error", 0), HttpReply(429, "error", 0),
    HttpReply(400, "error", 0), HttpReply(401, "error", 0),
    HttpReply(500, "error", 0), HttpReply(502, "text", 0),
    FetchRejected(<<"c","o","n","n","e","c","t"," ","E","T","I","M","E","D","O","U","T">>),
    FetchRejected(<<"f","e","t","c","h"," ","f","a","i","l","e","d">>) }

\* the instant the runs start at: half a minute into the 13th hour of a day
StartTime == 12 * GLOBAL_WINDOW_MS + (IP_WINDOW_MS \div 2)

(***************************************************************************)
(* What earlier traffic has left in the counter store: n calls of caller   *)
(* Ip1 in the current minute, g calls of the global limiter in the current *)
(* hour, and a ledger that k generations of the day have been added to.    *)
(* The ledger update takes the date when it runs (line 184), so the cost   *)
(* of a request that was let by in an earlier hour or day is added to      *)
(* today's entry when its generation call answers today: the entry can     *)
(* hold more additions than the global limiter lets by in the hours of     *)
(* the day so far.                                                         *)
(***************************************************************************)
Earlier(n, g, k) == [ip |-> n, global |-> g, spend |-> k]

EarlierTraffic ==
  { Earlier(n, g, k) :
      n \in {0, IP_RATE_LIMIT - 1},
      g \in {IP_RATE_LIMIT - 1, GLOBAL_RATE_LIMIT - 1},
      k \in {0, 2499, 2501} }
  \cup { Earlier(0, 0, 0) }

Entry(val, exp) == [val |-> val, exp |-> exp]

StoreAfter(p, t) ==
  LET keys == (IF p.ip > 0 THEN {IpKey(Ip1, t)} ELSE {})
              \cup (IF p.global > 0 THEN {GlobalKey(t)} ELSE {})
              \cup (IF p.spend > 0 THEN {SpendKey(t)} ELSE {})
  IN [k \in keys |->
        IF k = IpKey(Ip1, t) THEN Entry(p.ip, t + IP_WINDOW_MS)
        ELSE IF k = GlobalKey(t) THEN Entry(p.global, t + GLOBAL_WINDOW_MS)
        ELSE Entry(AddCostTimes(p.spend, FZero), t + SPEND_TTL_MS)]

InitWith(e, p, t) ==
  /\ now = t
  /\ env = e
  /\ redis = StoreAfter(p, t)
  /\ art = EmptyStore
  /\ slots = [s \in Slots |-> IdleSlot]
  /\ started = 0
  /\ ipCalls = IF p.ip > 0 THEN [i \in {Ip1} |-> Rep(t, p.ip)] ELSE EmptyStore
  /\ globalCalls = Rep(t, p.global)
  /\ generated = IF p.spend > 0 THEN [d \in {UtcDate(t)} |-> p.spend] ELSE EmptyStore
  /\ successes = <<>>
  /\ served = NoGet

(***************************************************************************)
(* Spec: requests of every kind, handled one after the other.              *)
(***************************************************************************)
\* requests received in one run of Spec
MaxRequests == 2

Init ==
  \E e \in Envs, p \in EarlierTraffic :
    \* only a deployment with both settings has used the counter store
    /\ \/ e.UPSTASH_REDIS_REST_URL /\ e.UPSTASH_REDIS_REST_TOKEN
       \/ p = Earlier(0, 0, 0)
    /\ InitWith(e, p, StartTime)

Next ==
  \/ \E req \in Requests : started < MaxRequests /\ Start(1, req)
  \/ IpLimit(1)
  \/ GlobalLimit(1)
  \/ BudgetCheck(1)
  \/ ParseBody(1)
  \/ \E out \in GenOutcomes : Generate(1, out)
  \/ LedgerGet(1, Ok)
  \/ LedgerSet(1, Ok)
  \/ PutHistory(1, Ok)
  \/ PutLatest(1, Ok)
  \/ Release(1)

Spec == Init /\ [][Next]_vars

(***************************************************************************)
(* SpecRate: one deployment with the counter store configured and empty,   *)
(* two callers that present the secret, and a clock that moves within the  *)
(* minute and over its end.  The prompt is too short, so that a request    *)
(* ends at the prompt check when the limiters and the budget let it by.    *)
(***************************************************************************)
\* requests received in one run of SpecRate
MaxRateRequests == 12

RateRequests ==
  { Request(SmallLength, Auth(Null, Null, Secret), i, Text(<<"a","b">>)) : i \in {Ip1, Ip2} }

\* 20 s after the start, in the same minute, and 30 s after it, in the next
RateTimes == { StartTime + 20000, StartTime + (IP_WINDOW_MS \div 2) }

InitRate == InitWith(Env(TRUE, TRUE, Secret), Earlier(0, 0, 0), StartTime)

NextRate ==
  \/ \E req \in RateRequests : started < MaxRateRequests /\ Start(1, req)
  \/ IpLimit(1)
  \/ GlobalLimit(1)
  \/ BudgetCheck(1)
  \/ ParseBody(1)
  \/ Release(1)
  \/ \E t \in RateTimes : Tick(t)

SpecRate == InitRate /\ [][NextRate]_vars

(***************************************************************************)
(* SpecStore: a deployment without the counter store that receives the     *)
(* same good request several times, two handler runs at a time.  The       *)
(* generation call and each put can fail, the clock can move on by a       *)
(* millisecond, and the stored images are read back with GET /art/<key>.   *)
(* A request is handled by the first free run; the runs are alike.         *)
(***************************************************************************)
\* requests received in one run of SpecStore
MaxStoreRequests == 2
\* GET requests received in one run
MaxGets == 1

GoodRequest == Request(SmallLength, Auth(SameOrigin, Null, Null), Ip1, ValidBody)

PutOutcomes ==
  { Ok, Thrown(<<"R","2"," ","t","i","m","e","o","u","t">>) }

StoreTimes == { StartTime + 1 }

\* the paths asked for: the latest image, the history images of the instants
\* of a run, and one that no image is stored under
AbsentPath == UrlPath(HistoryKey(0))
ArtPaths ==
  { UrlPath(LatestKey), AbsentPath }
  \cup { UrlPath(HistoryKey(t)) : t \in {StartTime} \cup StoreTimes }

\* the free handler run a new request is given to
FirstFree(s) == \A r \in 1..(s - 1) : slots[r].pc # "idle"

InitStore == InitWith(Env(FALSE, FALSE, Secret), Earlier(0, 0, 0), StartTime)

NextStore ==
  \/ \E s \in Slots : started < MaxStoreRequests /\ FirstFree(s) /\ Start(s, GoodRequest)
  \/ \E s \in Slots : ParseBody(s)
  \/ \E s \in Slots : \E out \in GenOutcomes : Generate(s, out)
  \/ \E s \in Slots : \E out \in PutOutcomes : PutHistory(s, out)
  \/ \E s \in Slots : \E out \in PutOutcomes : PutLatest(s, out)
  \/ \E s \in Slots : Release(s)
  \/ \E path \in ArtPaths : served.n < MaxGets /\ GetArt(path)
  \/ \E t \in StoreTimes : Tick(t)

SpecStore == InitStore /\ [][NextStore]_vars

(***************************************************************************)
(* SpecLedger: a deployment with the counter store, empty at the start,    *)
(* that receives a good request or one with too short a prompt, two        *)
(* handler runs at a time.  The generation call can fail or return an      *)
(* image at or over the size ceiling, and each call of the ledger update   *)
(* can fail; the puts succeed.                                             *)
(***************************************************************************)
\* requests received in one run of SpecLedger
MaxLedgerRequests == 3

ShortRequest ==
  Request(SmallLength, Auth(SameOrigin, Null, Null), Ip1, Text(<<"a","b">>))

LedgerRequests == { GoodRequest, ShortRequest }

SizedOutcomes ==
  { Image(MAX_IMAGE_BYTES), Image(MAX_IMAGE_BYTES + 1),
    Thrown(<<"f","e","t","c","h"," ","f","a","i","l","e","d">>) }

StoreOutcomes ==
  { Ok, Thrown(<<"r","e","d","i","s"," ","u","n","r","e","a","c","h","a","b","l","e">>) }

InitLedger == InitWith(Env(TRUE, TRUE, Secret), Earlier(0, 0, 0), StartTime)

NextLedger ==
  \/ \E s \in Slots : \E req \in LedgerRequests :
       started < MaxLedgerRequests /\ FirstFree(s) /\ Start(s, req)
  \/ \E s \in Slots : IpLimit(s)
  \/ \E s \in Slots : GlobalLimit(s)
  \/ \E s \in Slots : BudgetCheck(s)
  \/ \E s \in Slots : ParseBody(s)
  \/ \E s \in Slots : \E out \in SizedOutcomes : Generate(s, out)
  \/ \E s \in Slots : \E out \in StoreOutcomes : LedgerGet(s, out)
  \/ \E s \in Slots : \E out \in StoreOutcomes : LedgerSet(s, out)
  \/ \E s \in Slots : PutHistory(s, Ok)
  \/ \E s \in Slots : PutLatest(s, Ok)
  \/ \E s \in Slots : Release(s)
  \/ \E path \in ArtPaths : served.n < MaxGets /\ GetArt(path)

SpecLedger == InitLedger /\ [][NextLedger]_vars

(***************************************************************************)
(* SpecSeq: the deployment with the counter store handling good requests   *)
(* one after the other.  The generation call and each put can fail, the    *)
(* clock can move on, and images are read back with GET /art/<key>.        *)
(***************************************************************************)
\* requests received in one run of SpecSeq
MaxSeqRequests == 3
\* GET requests received in one run of SpecSeq
MaxSeqGets == 2

NextSeq ==
  \/ started < MaxSeqRequests /\ Start(1, GoodRequest)
  \/ IpLimit(1)
  \/ GlobalLimit(1)
  \/ BudgetCheck(1)
  \/ ParseBody(1)
  \/ \E out \in GenOutcomes : Generate(1, out)
  \/ LedgerGet(1, Ok)
  \/ LedgerSet(1, Ok)
  \/ \E out \in PutOutcomes : PutHistory(1, out)
  \/ \E out \in PutOutcomes : PutLatest(1, out)
  \/ Release(1)
  \/ \E path \in ArtPaths : served.n < MaxSeqGets /\ GetArt(path)
  \/ \E t \in StoreTimes : Tick(t)

SpecSeq == InitLedger /\ [][NextSeq]_vars

(***************************************************************************)
(* SpecProvider: a deployment without the counter store handling good      *)
(* requests one after the other, with the generation call opened up: the   *)
(* provider answers with a status and a body, or the fetch is rejected,    *)
(* and generateImage makes of that the bytes it returns or the error it    *)
(* throws.                                                                 *)
(***************************************************************************)
\* requests received in one run of SpecProvider
MaxProviderRequests == 2

NextProvider ==
  \/ started < MaxProviderRequests /\ Start(1, GoodRequest)
  \/ ParseBody(1)
  \/ \E reply \in ProviderReplies : Fetch(1, reply)
  \/ slots[1].reply # NoReply /\ Generate(1, GenerateImage(slots[1].reply))
  \/ \E out \in PutOutcomes : PutHistory(1, out)
  \/ \E out \in PutOutcomes : PutLatest(1, out)
  \/ Release(1)
  \/ \E t \in StoreTimes : Tick(t)

SpecProvider == InitStore /\ [][NextProvider]_vars

(***************************************************************************)
(* SpecRoutes: the deployment with the counter store handling good         *)
(* requests one after the other, while images are read back and OPTIONS    *)
(* requests come in for the paths of the service.                          *)
(***************************************************************************)
\* POST requests received in one run of SpecRoutes
MaxRoutesRequests == 2
\* GET and OPTIONS requests received in one run of SpecRoutes
MaxRoutesCalls == 2

ApiGeneratePath == <<"/", "api/generate", <<>> >>
RootPath == <<"/">>

OptionsPaths == { ApiGeneratePath, RootPath, UrlPath(LatestKey) }

NextRoutes ==
  \/ started < MaxRoutesRequests /\ Start(1, GoodRequest)
  \/ IpLimit(1)
  \/ GlobalLimit(1)
  \/ BudgetCheck(1)
  \/ ParseBody(1)
  \/ \E out \in GenOutcomes : Generate(1, out)
  \/ LedgerGet(1, Ok)
  \/ LedgerSet(1, Ok)
  \/ PutHistory(1, Ok)
  \/ PutLatest(1, Ok)
  \/ Release(1)
  \/ served.n < MaxRoutesCalls /\ GetArt(UrlPath(LatestKey))
  \/ \E path \in OptionsPaths, hasPreflight \in BOOLEAN :
       served.n < MaxRoutesCalls /\ Options(path, hasPreflight)

SpecRoutes == InitLedger /\ [][NextRoutes]_vars

(***************************************************************************)
(* SpecRace: the deployment with the counter store receiving the same good *)
(* request several times, two handler runs at a time.  The ledger of the   *)
(* day is empty at the start, or 2499 generations have been added to it,   *)
(* which leaves it one more generation under the cap.  Every call answers. *)
(***************************************************************************)
\* requests received in one run of SpecRace
MaxRaceRequests == 3

RaceLedgers == { Earlier(0, 0, 0), Earlier(0, 0, 2499) }

InitRace ==
  \E p \in RaceLedgers : InitWith(Env(TRUE, TRUE, Secret), p, StartTime)

NextRace ==
  \/ \E s \in Slots : started < MaxRaceRequests /\ FirstFree(s) /\ Start(s, GoodRequest)
  \/ \E s \in Slots : IpLimit(s)
  \/ \E s \in Slots : GlobalLimit(s)
  \/ \E s \in Slots : BudgetCheck(s)
  \/ \E s \in Slots : ParseBody(s)
  \/ \E s \in Slots : Generate(s, Image(1024))
  \/ \E s \in Slots : LedgerGet(s, Ok)
  \/ \E s \in Slots : LedgerSet(s, Ok)
  \/ \E s \in Slots : PutHistory(s, Ok)
  \/ \E s \in Slots : PutLatest(s, Ok)
  \/ \E s \in Slots : Release(s)

SpecRace == InitRace /\ [][NextRace]_vars

(***************************************************************************)
(* SpecWindow: the deployment with the counter store and two callers that  *)
(* present the secret with too short a prompt.  The store is empty at the  *)
(* start, or the first caller has been counted 9 times in the minute and   *)
(* 99 requests in the hour.  The clock moves on into the next minute and   *)
(* into the next hour.                                                     *)
(***************************************************************************)
\* requests received in one run of SpecWindow
MaxWindowRequests == 4

WindowTraffic == { Earlier(0, 0, 0), Earlier(IP_RATE_LIMIT - 1, GLOBAL_RATE_LIMIT - 1, 0) }

\* the start of the next minute and the start of the next hour
WindowTimes == { StartTime + (IP_WINDOW_MS \div 2), 13 * GLOBAL_WINDOW_MS }

InitWindow ==
  \E p \in WindowTraffic : InitWith(Env(TRUE, TRUE, Secret), p, StartTime)

NextWindow ==
  \/ \E req \in RateRequests : started < MaxWindowRequests /\ Start(1, req)
  \/ IpLimit(1)
  \/ GlobalLimit(1)
  \/ BudgetCheck(1)
  \/ ParseBody(1)
  \/ Release(1)
  \/ \E t \in WindowTimes : Tick(t)

SpecWindow == InitWindow /\ [][NextWindow]_vars

(***************************************************************************)
(* SpecQuota: the deployment with the counter store handling, one after    *)
(* the other, requests of one caller from the page whose bodies are good,  *)
(* malformed, or carry a prompt that is too short, too long or on the      *)
(* denylist.  The store is empty at the start, or 99 requests have been    *)
(* counted in the hour.                                                    *)
(***************************************************************************)
\* requests received in one run of SpecQuota
MaxQuotaRequests == 2

QuotaTraffic == { Earlier(0, 0, 0), Earlier(0, GLOBAL_RATE_LIMIT - 1, 0) }

QuotaRequests ==
  { Request(SmallLength, Auth(SameOrigin, Null, Null), Ip1, b) :
      b \in {ValidBody, MalformedBody, Text(<<"a","b">>),
             Text(Rep("a", MAX_PROMPT_LENGTH + 1)), Text(<<"k","i","l","l">>)} }

InitQuota ==
  \E p \in QuotaTraffic : InitWith(Env(TRUE, TRUE, Secret), p, StartTime)

NextQuota ==
  \/ \E req \in QuotaRequests : started < MaxQuotaRequests /\ Start(1, req)
  \/ IpLimit(1)
  \/ GlobalLimit(1)
  \/ BudgetCheck(1)
  \/ ParseBody(1)
  \/ \E out \in GenOutcomes : Generate(1, out)
  \/ LedgerGet(1, Ok)
  \/ LedgerSet(1, Ok)
  \/ PutHistory(1, Ok)
  \/ PutLatest(1, Ok)
  \/ Release(1)

SpecQuota == InitQuota /\ [][NextQuota]_vars

(***************************************************************************)
(* SpecDay: the deployment with the counter store in the last hour of a    *)
(* UTC day in which every request so far started and completed.  At most   *)
(* 100 requests have passed the global limiter in each of the 23 hours     *)
(* before: either the day has been idle, or 2300 generations are on the    *)
(* ledger at the start of the hour, or 2399 with 99 requests counted in    *)
(* the hour.  Good requests are handled one after the other, and the clock *)
(* moves on into the next day when no request is in flight.                *)
(***************************************************************************)
\* requests received in one run of SpecDay
MaxDayRequests == 3

\* half a minute into the last hour of the day
LastHour == 23 * GLOBAL_WINDOW_MS + (IP_WINDOW_MS \div 2)

DayTraffic ==
  { Earlier(0, 0, 0),
    Earlier(0, 0, 23 * GLOBAL_RATE_LIMIT),
    Earlier(0, GLOBAL_RATE_LIMIT - 1, 23 * GLOBAL_RATE_LIMIT + GLOBAL_RATE_LIMIT - 1) }

InitDay ==
  \E p \in DayTraffic : InitWith(Env(TRUE, TRUE, Secret), p, LastHour)

\* no handler run is between its first and its last step
NoRunInFlight ==
  \A s \in Slots :
    \/ slots[s].pc = "idle"
    \/ slots[s].pc = "done" /\ slots[s].putH # "pending" /\ slots[s].putL # "pending"

NextDay ==
  \/ started < MaxDayRequests /\ Start(1, GoodRequest)
  \/ IpLimit(1)
  \/ GlobalLimit(1)
  \/ BudgetCheck(1)
  \/ ParseBody(1)
  \/ \E out \in GenOutcomes : Generate(1, out)
  \/ LedgerGet(1, Ok)
  \/ LedgerSet(1, Ok)
  \/ PutHistory(1, Ok)
  \/ PutLatest(1, Ok)
  \/ Release(1)
  \/ NoRunInFlight /\ Tick(DAY_MS)

SpecDay == InitDay /\ [][NextDay]_vars

(***************************************************************************)
(* SpecMidnight: the deployment with the counter store, empty at the       *)
(* start, one second before the end of a UTC day.  Good requests are       *)
(* handled one after the other, and the day can end at any step of a run.  *)
(***************************************************************************)
\* requests received in one run of SpecMidnight
MaxMidnightRequests == 2

\* one second before UTC midnight
BeforeMidnight == DAY_MS - 1000

InitMidnight == InitWith(Env(TRUE, TRUE, Secret), Earlier(0, 0, 0), BeforeMidnight)

NextMidnight ==
  \/ started < MaxMidnightRequests /\ Start(1, GoodRequest)
  \/ IpLimit(1)
  \/ GlobalLimit(1)
  \/ BudgetCheck(1)
  \/ ParseBody(1)
  \/ \E out \in GenOutcomes : Generate(1, out)
  \/ LedgerGet(1, Ok)
  \/ LedgerSet(1, Ok)
  \/ PutHistory(1, Ok)
  \/ PutLatest(1, Ok)
  \/ Release(1)
  \/ Tick(DAY_MS)

SpecMidnight == InitMidnight /\ [][NextMidnight]_vars

(***************************************************************************)
(* SpecSculpture: the deployment with the counter store running the copy   *)
(* of the worker that has POST /api/generate-sculpture.  Requests for      *)
(* either route, from the page or from elsewhere without the secret, are   *)
(* handled one after the other.                                            *)
(***************************************************************************)
\* requests received in one run of SpecSculpture
MaxSculptureRequests == 2

SculptureRequests ==
  { Request(SmallLength, a, Ip1, b) :
      a \in {Auth(SameOrigin, Null, Null), Auth(ForeignOrigin, Null, Null)},
      b \in {ValidBody, MalformedBody, Text(<<"a","b">>)} }

\* what the text-to-image call and the image-to-3D call settle with
ImageReplies ==
  { HttpReply(200, "artifacts", 1024), HttpReply(402, "error", 0),
    FetchRejected(<<"f","e","t","c","h"," ","f","a","i","l","e","d">>) }
ModelReplies == { HttpReply(200, "binary", 2048), HttpReply(429, "error", 0) }

NextSculpture ==
  \/ \E req \in SculptureRequests : started < MaxSculptureRequests /\ Start(1, req)
  \/ \E req \in SculptureRequests : started < MaxSculptureRequests /\ StartSculpture(1, req)
  \/ IpLimit(1)
  \/ GlobalLimit(1)
  \/ BudgetCheck(1)
  \/ ParseBody(1)
  \/ \E out \in GenOutcomes : Generate(1, out)
  \/ LedgerGet(1, Ok)
  \/ LedgerSet(1, Ok)
  \/ PutHistory(1, Ok)
  \/ PutLatest(1, Ok)
  \/ SculptureParse(1)
  \/ \E reply \in ImageReplies : SculptureImage(1, reply)
  \/ \E reply \in ModelReplies : Sculpture3d(1, reply)
  \/ \E out \in PutOutcomes : SculpturePut(1, out)
  \/ Release(1)

SpecSculpture == InitLedger /\ [][NextSculpture]_vars

(***************************************************************************)
(* SpecImages: a deployment without the counter store running the copy of  *)
(* the worker that has the listing routes.  The object store is empty at   *)
(* the start, or it holds what two overlapping runs have left: the run     *)
(* that took its timestamp first stored its images last.  Good requests    *)
(* are handled one after the other, each put can fail, the clock can move  *)
(* on, and the images are listed.                                          *)
(***************************************************************************)
\* POST requests received in one run of SpecImages
MaxImagesRequests == 2
\* GET requests received in one run of SpecImages
MaxImagesCalls == 2

\* the store after a run with the timestamp of 2 s before the start has put
\* both images half a second before it, and another run with the timestamp
\* of 1 s before the start has put both of its images 0.9 s before it
OverlappedStore ==
  LET keyA == HistoryKey(StartTime - 2000)
      keyB == HistoryKey(StartTime - 1000)
      b1 == ArtPut(EmptyStore, keyB, 102, 1024,
                   "public, max-age=31536000, immutable", StartTime - 900)
      b2 == ArtPut(b1, LatestKey, 102, 1024, "no-store, max-age=0", StartTime - 900)
      a1 == ArtPut(b2, keyA, 101, 1024,
                   "public, max-age=31536000, immutable", StartTime - 500)
  IN ArtPut(a1, LatestKey, 101, 1024, "no-store, max-age=0", StartTime - 500)

InitImages ==
  /\ now = StartTime
  /\ env = Env(FALSE, FALSE, Secret)
  /\ redis = EmptyStore
  /\ art \in {EmptyStore, OverlappedStore}
  /\ slots = [s \in Slots |-> IdleSlot]
  /\ started = 0
  /\ ipCalls = EmptyStore
  /\ globalCalls = <<>>
  /\ generated = EmptyStore
  /\ successes = <<>>
  /\ served = NoGet

NextImages ==
  \/ started < MaxImagesRequests /\ Start(1, GoodRequest)
  \/ ParseBody(1)
  \/ \E out \in GenOutcomes : Generate(1, out)
  \/ \E out \in PutOutcomes : PutHistory(1, out)
  \/ \E out \in PutOutcomes : PutLatest(1, out)
  \/ Release(1)
  \/ \E out \in PutOutcomes : served.n < MaxImagesCalls /\ GetLatestImage(out)
  \/ \E out \in PutOutcomes : served.n < MaxImagesCalls /\ GetImages(out)
  \/ \E t \in StoreTimes : Tick(t)

SpecImages == InitImages /\ [][NextImages]_vars

(***************************************************************************)
(* SpecAdmit: the deployment with the counter store, empty at the start,   *)
(* handling one after the other requests that declare a size under, at or  *)
(* over the cap or none, come from the page or from elsewhere, and carry a *)
(* good or a malformed body.                                               *)
(***************************************************************************)
\* requests received in one run of SpecAdmit
MaxAdmitRequests == 2

AdmitSizes ==
  SizeCases \cup { <<"9","9","9","9">>, <<"1","0","0","0","0","0">> }

AdmitRequests ==
  { Request(c, a, Ip1, b) :
      c \in AdmitSizes,
      a \in {Auth(SameOrigin, Null, Null), Auth(ForeignOrigin, Null, Null)},
      b \in {ValidBody, MalformedBody} }

NextAdmit ==
  \/ \E req \in AdmitRequests : started < MaxAdmitRequests /\ Start(1, req)
  \/ IpLimit(1)
  \/ GlobalLimit(1)
  \/ BudgetCheck(1)
  \/ ParseBody(1)
  \/ \E out \in GenOutcomes : Generate(1, out)
  \/ LedgerGet(1, Ok)
  \/ LedgerSet(1, Ok)
  \/ PutHistory(1, Ok)
  \/ PutLatest(1, Ok)
  \/ Release(1)

SpecAdmit == InitLedger /\ [][NextAdmit]_vars


(***************************************************************************)
(* The stages as the specification words them, for the properties below.   *)
(***************************************************************************)
RECURSIVE DecimalValue(_)
DecimalValue(str) ==
  IF str = <<>> THEN 0
  ELSE 10 * DecimalValue(SubSeq(str, 1, Len(str) - 1))
       + ((CHOOSE d \in 1..10 : DecDigits[d] = str[Len(str)]) - 1)

\* the declared body size is over the cap
DeclaredTooLarge(req) ==
  /\ req.contentLength # Null
  /\ req.contentLength # <<>>
  /\ DecimalValue(req.contentLength) > 10000

\* the text of the service's host occurs in the header
MentionsHost(header, host) ==
  /\ header # Null
  /\ \E i \in 1..Len(header) :
       /\ i + Len(host) - 1 <= Len(header)
       /\ \A j \in 1..Len(host) : header[i + j - 1] = host[j]

\* the verdict of the authentication stage
Admitted(req) ==
  \/ MentionsHost(req.origin, req.host)
  \/ MentionsHost(req.referer, req.host)
  \/ (req.apiKey # Null /\ req.apiKey # <<>> /\ req.apiKey = env.DEMO_API_KEY)

CounterStore == env.UPSTASH_REDIS_REST_URL /\ env.UPSTASH_REDIS_REST_TOKEN

\* the body carries a prompt text, or none at all
HasPrompt(req) ==
  \/ req.body.json \in {"array", "scalar"}
  \/ req.body.json = "object" /\ req.body.t \in {"string", "absent", "falsy"}

\* str without the white space before its first and after its last other
\* character
Trimmed(str) ==
  LET n     == Len(str)
      blank == {" ", "\t", "\n"}
      first == CHOOSE i \in 1..(n + 1) :
                 /\ i = n + 1 \/ str[i] \notin blank
                 /\ \A j \in 1..(i - 1) : str[j] \in blank
      last  == CHOOSE i \in 0..n :
                 /\ i = 0 \/ str[i] \notin blank
                 /\ \A j \in (i + 1)..n : str[j] \in blank
  IN IF first > n THEN <<>> ELSE SubSeq(str, first, last)

PromptText(req) ==
  IF req.body.json = "object" /\ req.body.t = "string" THEN Trimmed(req.body.s) ELSE <<>>

\* some denylisted word occurs in the prompt, letter case apart
Denylisted(prompt) ==
  LET low == [i \in 1..Len(prompt) |-> ToLowerChar(prompt[i])]
  IN \E w \in 1..Len(BLOCKED_WORDS) : \E i \in 1..Len(prompt) :
       /\ i + Len(BLOCKED_WORDS[w]) - 1 <= Len(prompt)
       /\ \A j \in 1..Len(BLOCKED_WORDS[w]) : low[i + j - 1] = BLOCKED_WORDS[w][j]

\* the error of the first admission stage the request of a slot fails, "none"
\* when it fails no stage
FirstFailure(sl) ==
  IF DeclaredTooLarge(sl.req) THEN "request_too_large"
  ELSE IF ~Admitted(sl.req) THEN "unauthorized"
  ELSE IF CounterStore /\ sl.ipSeen > 10 THEN "rate_limit_exceeded"
  ELSE IF CounterStore /\ sl.globalSeen > 100 THEN "global_rate_limit_exceeded"
  ELSE IF CounterStore /\ FGeq(sl.dailySpend, DAILY_SPENDING_CAP)
    THEN "daily_budget_exceeded"
  ELSE IF sl.req.body.json = "malformed" THEN "invalid_json"
  ELSE LET text == PromptText(sl.req)
       IN IF Len(text) < 3 THEN "invalid_prompt"
          ELSE IF Len(text) > 500 THEN "prompt_too_long"
          ELSE IF Denylisted(text) THEN "inappropriate_prompt"
          ELSE "none"

AdmissionErrors ==
  << "request_too_large", "unauthorized", "rate_limit_exceeded",
     "global_rate_limit_exceeded", "daily_budget_exceeded", "invalid_json",
     "invalid_prompt", "prompt_too_long", "inappropriate_prompt" >>

\* the stages a request has behind it when it fails with the given error
StagesBefore(error) ==
  LET limits == IF CounterStore THEN <<"ip", "global", "budget">> ELSE <<>>
      all    == <<"size", "auth">> \o limits \o <<"json", "length", "content">>
      n      == IF error = "request_too_large" THEN 0
                ELSE IF error = "unauthorized" THEN 1
                ELSE IF error = "rate_limit_exceeded" THEN 2
                ELSE IF error = "global_rate_limit_exceeded" THEN 3
                ELSE IF error = "daily_budget_exceeded" THEN 4
                ELSE IF error = "invalid_json" THEN 2 + Len(limits)
                ELSE IF error \in {"invalid_prompt", "prompt_too_long"}
                  THEN 3 + Len(limits)
                ELSE IF error = "inappropriate_prompt" THEN 4 + Len(limits)
                ELSE 5 + Len(limits)
  IN SubSeq(all, 1, n)

(***************************************************************************)
(* C1: generateImage is called only for a request that has passed, in this *)
(* order, the size check, authentication, the per-caller limiter, the      *)
(* global limiter, the budget check (the three when the counter store is   *)
(* configured), JSON parsing, the prompt length check and the content      *)
(* policy; a request that fails one of them causes no generation call.     *)
(***************************************************************************)
C1_GenerationOnlyAfterAdmission ==
  \A s \in Slots :
    slots[s].gens > 0 =>
      /\ HasPrompt(slots[s].req)
      /\ FirstFailure(slots[s]) = "none"
      /\ CounterStore => slots[s].ipSeen >= 1 /\ slots[s].globalSeen >= 1
                         /\ slots[s].genAtCheck >= 0
      /\ SubSeq(slots[s].passed, 1, Len(StagesBefore("none"))) = StagesBefore("none")

C1_Witness ==
  \E s \in Slots :
    /\ slots[s].pc = "generate"
    /\ slots[s].gens = 1
    /\ CounterStore
    /\ slots[s].passed =
         <<"size", "auth", "ip", "global", "budget", "json", "length", "content">>

UrlHost(u) ==
  LET marks == {i \in 1..(Len(u) - 2) : SubSeq(u, i, i + 2) = <<":", "/", "/">>}
      from  == (CHOOSE i \in marks : \A j \in marks : i <= j) + 3
      stops == {i \in from..Len(u) : u[i] \in {"/", "?", "#"}}
      to    == IF stops = {} THEN Len(u)
               ELSE (CHOOSE i \in stops : \A j \in stops : i <= j) - 1
  IN IF marks = {} THEN <<>> ELSE SubSeq(u, from, to)

NamesOwnHost(header, host) == header # Null /\ UrlHost(header) = host

SameOriginRequest(req) ==
  NamesOwnHost(req.origin, req.host) \/ NamesOwnHost(req.referer, req.host)

CredentialMatches(req) ==
  req.apiKey # Null /\ env.DEMO_API_KEY # Null /\ req.apiKey = env.DEMO_API_KEY

C3_UnauthorizedUnlessSameOriginOrKey ==
  \A s \in Slots :
    (slots[s].pc # "idle" /\ ~DeclaredTooLarge(slots[s].req)) =>
      IF SameOriginRequest(slots[s].req) \/ CredentialMatches(slots[s].req)
        THEN TRUE
        ELSE /\ slots[s].pc = "done"
             /\ slots[s].resp.status = 401
             /\ slots[s].resp.error = "unauthorized"

(***************************************************************************)
(* C4 as the specification states it: with the counter store configured,   *)
(* when a caller's request is the 11th of that caller within 60 seconds it *)
(* is rejected with 429 rate_limit_exceeded, and a request that is not the *)
(* 11th of its caller is not rejected by the per-caller limiter.           *)
(***************************************************************************)
\* the calls of the caller of sl no more than 60 seconds before its last one
CallsWithin60s(sl) ==
  LET calls == CallsOf(IF sl.req.ip = Null THEN <<"u","n","k","n","o","w","n">> ELSE sl.req.ip)
  IN Cardinality({i \in 1..Len(calls) : calls[Len(calls)] - calls[i] < 60000})

C5_GlobalLimit ==
  \A s \in Slots :
    slots[s].globalSeen > 0 =>
      IF slots[s].globalSeen > 100
        THEN /\ slots[s].pc = "done"
             /\ slots[s].resp.status = 429
             /\ slots[s].resp.error = "global_rate_limit_exceeded"
        ELSE /\ slots[s].resp.error # "global_rate_limit_exceeded"
             /\ Len(slots[s].passed) >= 4 /\ slots[s].passed[4] = "global"

\* the 100th request of the hour came from one caller, the 101st from another
C5_Witness ==
  \E s \in Slots :
    /\ slots[s].globalSeen = 101
    /\ slots[s].resp.error = "global_rate_limit_exceeded"
    /\ slots[s].req.ip = Ip2
    /\ Len(CallsOf(Ip1)) > 0
    /\ globalCalls[100] = now

(***************************************************************************)
(* C6: with a daily cap of 10.00 and a per-call cost of 0.004, after 2500  *)
(* successful generations in one UTC day the next generation request of    *)
(* that day is rejected with 429 daily_budget_exceeded; the budget check   *)
(* rejects exactly when today's ledger value is at or above the cap.       *)
(***************************************************************************)
C6_RejectedAfter2500 ==
  \A s \in Slots :
    slots[s].genAtCheck >= 0 =>
      /\ slots[s].genAtCheck >= 2500 =>
           (slots[s].resp.status = 429
            /\ slots[s].resp.error = "daily_budget_exceeded")
      /\ slots[s].resp.error = "daily_budget_exceeded"
           <=> FGeq(slots[s].dailySpend, DAILY_SPENDING_CAP)

(***************************************************************************)
(* C7: the budget check runs after both rate-limit increments: a request   *)
(* rejected with daily_budget_exceeded has been counted once in its        *)
(* caller's counter and once in the global counter of the current windows. *)
(***************************************************************************)
C7_BudgetAfterIncrements ==
  \A s \in Slots :
    slots[s].resp.error = "daily_budget_exceeded" =>
      /\ slots[s].passed = <<"size", "auth", "ip", "global">>
      /\ slots[s].ipSeen >= 1
      /\ slots[s].globalSeen >= 1
      /\ RedisHas(redis, IpKey(CallerIp(slots[s].req), now))
      /\ redis[IpKey(CallerIp(slots[s].req), now)].val = slots[s].ipSeen
      /\ RedisHas(redis, GlobalKey(now))
      /\ redis[GlobalKey(now)].val = slots[s].globalSeen

\* rejected by the budget check with earlier calls in both windows
C7_Witness ==
  \E s \in Slots :
    /\ slots[s].resp.error = "daily_budget_exceeded"
    /\ slots[s].ipSeen = IP_RATE_LIMIT
    /\ slots[s].globalSeen = GLOBAL_RATE_LIMIT

(***************************************************************************)
(* C8: when the counter-store URL or token is not configured, no request   *)
(* is rejected with rate_limit_exceeded, global_rate_limit_exceeded or     *)
(* daily_budget_exceeded, and the counters and the ledger are never read   *)
(* or written.                                                             *)
(***************************************************************************)
C8_FailOpenWithoutStore ==
  ~CounterStore =>
    /\ redis = EmptyStore
    /\ ipCalls = EmptyStore
    /\ globalCalls = <<>>
    /\ \A s \in Slots :
         /\ slots[s].pc \notin {"ipLimit", "globalLimit", "budget", "ledgerGet", "ledgerSet"}
         /\ slots[s].resp.error \notin
              {"rate_limit_exceeded", "global_rate_limit_exceeded", "daily_budget_exceeded"}
         /\ slots[s].genAtCheck = -1

\* the URL is configured, the token is not, and the second request succeeds
C8_Witness ==
  /\ env.UPSTASH_REDIS_REST_URL
  /\ ~env.UPSTASH_REDIS_REST_TOKEN
  /\ \E s \in Slots : slots[s].resp.status = 200 /\ slots[s].id = 2

(***************************************************************************)
(* C9: a prompt whose length after trimming is below 3 (empty included) is *)
(* answered 400 invalid_prompt and one whose trimmed length is above 500   *)
(* is answered 400 prompt_too_long, both without a generation call;        *)
(* trimmed lengths 3 to 500 are accepted by this stage.                    *)
(***************************************************************************)
C9_PromptLength ==
  \A s \in Slots :
    (slots[s].req.body.json = "object" /\ slots[s].req.body.t = "string"
     /\ Len(slots[s].passed) > 0
     /\ slots[s].passed[Len(slots[s].passed)] \in {"json", "length", "content"}) =>
      LET text == Trimmed(slots[s].req.body.s)
          n    == Len(text)
      IN IF n < 3
           THEN /\ slots[s].resp.status = 400
                /\ slots[s].resp.error = "invalid_prompt"
                /\ slots[s].gens = 0
         ELSE IF n > 500
           THEN /\ slots[s].resp.status = 400
                /\ slots[s].resp.error = "prompt_too_long"
                /\ slots[s].gens = 0
         ELSE /\ slots[s].resp.error \notin {"invalid_prompt", "prompt_too_long"}
              /\ slots[s].prompt = text

\* 503 characters that trim to 500 and are generated from
C9_Witness ==
  \E s \in Slots :
    /\ Len(slots[s].req.body.s) = 503
    /\ Len(slots[s].prompt) = 500
    /\ slots[s].gens = 1

(***************************************************************************)
(* C10: a length-valid prompt that contains a denylisted word as a         *)
(* substring, in any letter case and at any position, is answered 400      *)
(* inappropriate_prompt without a generation call; a prompt with no        *)
(* denylisted substring is not rejected by this stage.                     *)
(***************************************************************************)
C10_ContentPolicy ==
  \A s \in Slots :
    (Len(slots[s].passed) > 0
     /\ slots[s].passed[Len(slots[s].passed)] \in {"length", "content"}) =>
      IF Denylisted(slots[s].prompt)
        THEN /\ slots[s].resp.status = 400
             /\ slots[s].resp.error = "inappropriate_prompt"
             /\ slots[s].gens = 0
        ELSE /\ slots[s].resp.error # "inappropriate_prompt"
             /\ slots[s].gens = 1

\* a denylisted word in mixed case inside the prompt
C10_Witness ==
  \E s \in Slots :
    /\ slots[s].resp.error = "inappropriate_prompt"
    /\ slots[s].prompt = <<"a"," ","K","i","L","l"," ","s","h","o","t">>


(***************************************************************************)
(* Claim-side vocabulary of the object store.                              *)
(***************************************************************************)
\* no handler run has anything left to do
NothingInFlight ==
  \A s \in Slots :
    \/ slots[s].pc = "idle"
    \/ slots[s].pc = "done" /\ slots[s].putH # "pending" /\ slots[s].putL # "pending"

LatestPath == <<"/", "art/latest.jpg", <<>> >>

\* the object that GET path would be answered with in store
StoredAt(store, path) == store[Tail(path)]
IsStoredAt(store, path) == Tail(path) \in DOMAIN store

(***************************************************************************)
(* C11: in every state with no request in flight, also after concurrent    *)
(* requests and after partly failed persistence, art/latest.jpg holds the  *)
(* bytes of the generation whose 200 response was issued last: never bytes *)
(* of a generation reported as failed, nor of an older success.            *)
(***************************************************************************)
C11_LatestIsLastSuccess ==
  NothingInFlight =>
    IF successes = <<>>
      THEN ~IsStoredAt(art, LatestPath)
      ELSE /\ IsStoredAt(art, LatestPath)
           /\ StoredAt(art, LatestPath).bytes = successes[Len(successes)].id

(***************************************************************************)
(* C12: for every successful generation, a later GET of the historyUrl it  *)
(* returned yields exactly the bytes that generation produced, after any   *)
(* further generations: distinct successful generations have distinct      *)
(* history keys and a history artifact is never overwritten or deleted.    *)
(***************************************************************************)
C12_HistoryRoundTrip ==
  [][ served'.n # served.n =>
        \A i \in 1..Len(successes) :
          served'.path = successes[i].historyUrl =>
            served'.status = 200 /\ served'.bytes = successes[i].id ]_vars

(***************************************************************************)
(* C13: after N successful generations handled one after the other and     *)
(* nothing else, GET /art/latest.jpg returns the bytes of the Nth          *)
(* generation and not those of an earlier one.                             *)
(***************************************************************************)
C13_LatestIsNth ==
  [][ ( /\ served'.n # served.n
        /\ served'.path = LatestPath
        /\ started >= 1
        /\ Len(successes) = started ) =>
      ( /\ served'.status = 200
        /\ served'.bytes = started
        /\ \A i \in 1..(started - 1) : served'.bytes # successes[i].id ) ]_vars

\* the latest image is asked for after two successful generations
C13_Witness ==
  /\ started = 2
  /\ Len(successes) = 2
  /\ served.path = LatestPath
  /\ served.status = 200
  /\ served.bytes = 2

(***************************************************************************)
(* C15: a 200 response to POST /api/generate is issued only after both the *)
(* history write and the latest write of that request have completed       *)
(* successfully; no request with a failed or unfinished write is answered  *)
(* with success.                                                           *)
(***************************************************************************)
C15_SuccessOnlyAfterBothPuts ==
  \A s \in Slots :
    slots[s].resp.status = 200 =>
      /\ slots[s].putH = "ok"
      /\ slots[s].putL = "ok"
      /\ IsStoredAt(art, slots[s].resp.historyUrl)
      /\ IsStoredAt(art, slots[s].resp.latestUrl)

\* one run has been answered 200 while the other has lost a put and still
\* waits for its second one
C15_Witness ==
  \E s, r \in Slots :
    /\ slots[s].resp.status = 200
    /\ slots[r].resp.status >= 500
    /\ slots[r].putH = "failed"
    /\ slots[r].putL = "pending"

(***************************************************************************)
(* C16: if the history write or the latest write fails after a successful  *)
(* generation, the response is the 500 generation_failed error, whichever  *)
(* write failed and whatever the description of the failure says.          *)
(***************************************************************************)
C16_PutFailureIsGenerationFailed ==
  \A s \in Slots :
    (slots[s].putH = "failed" \/ slots[s].putL = "failed") =>
      /\ slots[s].resp.status = 500
      /\ slots[s].resp.error = "generation_failed"


(***************************************************************************)
(* C14: GET /art/<key> never modifies the object store, the rate-limit     *)
(* counters or the ledger; it answers with the bytes stored under the key, *)
(* so that repeated GETs of art/latest.jpg with no generation in between   *)
(* return identical bytes, and an absent key yields 404 "Image not found". *)
(***************************************************************************)
C14_GetReadsOnly ==
  [][ served'.n # served.n =>
        /\ art' = art
        /\ redis' = redis
        /\ IF IsStoredAt(art, served'.path)
             THEN /\ served'.status = 200
                  /\ served'.bytes = StoredAt(art, served'.path).bytes
             ELSE /\ served'.status = 404
                  /\ served'.body = "Image not found" ]_vars

\* the latest image is served a second time, with a ledger and counters in
\* the counter store
C14_Witness ==
  /\ served.n = 2
  /\ served.path = LatestPath
  /\ served.status = 200
  /\ served.bytes = 1
  /\ \E k \in DOMAIN redis : k[1] = "spend"

(***************************************************************************)
(* C17: the ledger update is best-effort: if reading or writing the ledger *)
(* fails after a successful generation, the request still persists both    *)
(* artifacts and is answered with 200; a ledger failure is never surfaced  *)
(* as an error response.  (Where the puts succeed, every run whose         *)
(* generation returned an image within the size ceiling ends with 200.)    *)
(***************************************************************************)
C17_LedgerFailureNotSurfaced ==
  \A s \in Slots :
    ( /\ slots[s].pc = "done"
      /\ slots[s].size >= 1
      /\ slots[s].size <= 5242880 ) =>
        /\ slots[s].resp.status = 200
        /\ IsStoredAt(art, slots[s].resp.historyUrl)
        /\ IsStoredAt(art, LatestPath)

(***************************************************************************)
(* C18: for every UTC date the ledger value stored under that date never   *)
(* decreases over any interleaving of requests: each ledger write sets a   *)
(* value greater than or equal to the value stored just before it.         *)
(***************************************************************************)
C18_LedgerMonotone ==
  [][ \A k \in DOMAIN redis \cap DOMAIN redis' :
        k[1] = "spend" => FGeq(redis'[k].val, redis[k].val) ]_vars

(***************************************************************************)
(* C19: a request that ends with an admission error or with a failure of   *)
(* the generation call leaves the spend ledger and the object store        *)
(* unchanged: the ledger is written only by requests whose generation call *)
(* returned bytes within the size ceiling.                                 *)
(***************************************************************************)
\* the run of slot s has put an object into the store
HasStored(s) == \E k \in DOMAIN art : art[k].bytes = slots[s].id

C19_FailedRequestsWriteNothing ==
  \A s \in Slots :
    /\ (slots[s].size = 0 \/ slots[s].size > 5242880) =>
         (slots[s].wrote = 0 /\ ~HasStored(s))
    /\ ( /\ slots[s].pc = "done"
         /\ \E i \in 1..Len(AdmissionErrors) : slots[s].resp.error = AdmissionErrors[i] ) =>
         (slots[s].size = 0 /\ slots[s].wrote = 0 /\ ~HasStored(s))

\* one run has failed in the generation call and another at the prompt check
\* after an earlier request wrote the ledger and the store
C19_Witness ==
  /\ \E k \in DOMAIN redis : k[1] = "spend"
  /\ LatestKey \in DOMAIN art
  /\ \E s, r \in Slots :
       /\ slots[s].resp.error = "generation_failed" /\ slots[s].size = 0
       /\ slots[r].resp.error = "invalid_prompt"

(***************************************************************************)
(* C20: when the generation call returns more than 5 MiB the response is   *)
(* 500 image_too_large, nothing is written to the object store and the     *)
(* ledger is not updated; exactly 5 MiB or less is not rejected by this    *)
(* check.                                                                  *)
(***************************************************************************)
C20_ImageSizeCeiling ==
  \A s \in Slots :
    IF slots[s].size > 5 * 1024 * 1024
      THEN /\ slots[s].pc = "done"
           /\ slots[s].resp.status = 500
           /\ slots[s].resp.error = "image_too_large"
           /\ slots[s].wrote = 0
           /\ ~HasStored(s)
      ELSE slots[s].resp.error # "image_too_large"

\* an image of 5 MiB and one byte is rejected after one of exactly 5 MiB has
\* been answered with 200
C20_Witness ==
  /\ successes # <<>>
  /\ \E s \in Slots :
       /\ slots[s].size = 5 * 1024 * 1024 + 1
       /\ slots[s].resp.error = "image_too_large"

(***************************************************************************)
(* C21: every response of POST /api/generate other than the 200, whatever  *)
(* its error kind (unauthorized included), carries both an error kind and  *)
(* a message.                                                              *)
(***************************************************************************)
C21_ErrorsCarryKindAndMessage ==
  \A s \in Slots :
    (slots[s].pc = "done" /\ slots[s].resp.status # 200)
      => /\ slots[s].resp.error \notin {"none", "pending"}
         /\ slots[s].resp.message

(***************************************************************************)
(* C22: every failure of the generation call is answered with the one      *)
(* error kind of the first category it falls in, in this order:            *)
(* insufficient credit 402 insufficient_credits, timeout 504 timeout,      *)
(* provider rate limit 429 ai_provider_rate_limit, prompt rejected by the  *)
(* provider 400 invalid_prompt_for_provider, anything else 500             *)
(* generation_failed.                                                      *)
(***************************************************************************)
\* the generation call of the run failed: no image came back
ProviderFailure(reply) ==
  reply.kind = "rejected" \/ (reply.kind = "http" /\ reply.body # "artifacts")

\* the category of a failure of the provider
FailureCategory(reply) ==
  IF reply.kind = "http" /\ reply.status = 402 THEN "insufficient_credit"
  ELSE IF reply.kind = "rejected" /\ Includes(reply.msg, <<"E","T","I","M","E","D","O","U","T">>)
    THEN "timeout"
  ELSE IF reply.kind = "http" /\ reply.status = 429 THEN "rate_limit"
  ELSE IF reply.kind = "http" /\ reply.status = 400 THEN "rejected_prompt"
  ELSE "other"

C22_FailureKinds ==
  \A s \in Slots :
    (slots[s].pc = "done" /\ ProviderFailure(slots[s].reply))
      => LET c == FailureCategory(slots[s].reply)
             r == slots[s].resp
         IN /\ c = "insufficient_credit" => (r.status = 402 /\ r.error = "insufficient_credits")
            /\ c = "timeout" => (r.status = 504 /\ r.error = "timeout")
            /\ c = "rate_limit" => (r.status = 429 /\ r.error = "ai_provider_rate_limit")
            /\ c = "rejected_prompt" => (r.status = 400 /\ r.error = "invalid_prompt_for_provider")
            /\ c = "other" => (r.status = 500 /\ r.error = "generation_failed")

(***************************************************************************)
(* C23: a request is answered 413 request_too_large, before the            *)
(* authentication and every other stage, exactly when the Content-Length   *)
(* it declares is over 10,000; a request that declares 10,000 or less, or  *)
(* no length, is not turned away by the size check.                        *)
(***************************************************************************)
C23_SizeCheck ==
  \A s \in Slots :
    slots[s].pc # "idle" =>
      LET len == slots[s].req.contentLength
      IN IF len # Null /\ DecimalValue(len) > 10000
           THEN /\ slots[s].pc = "done"
                /\ slots[s].resp.status = 413
                /\ slots[s].resp.error = "request_too_large"
                /\ slots[s].passed = <<>>
                /\ slots[s].ipSeen = 0 /\ slots[s].globalSeen = 0
                /\ slots[s].gens = 0
           ELSE /\ slots[s].resp.error # "request_too_large"
                /\ slots[s].resp.status # 413
                /\ slots[s].passed # <<>>
                /\ slots[s].passed[1] = "size"

\* a request from elsewhere that declares 10,001 bytes has been answered 413,
\* after an earlier request was let by and answered 200
C23_Witness ==
  /\ Len(successes) = 1
  /\ \E s \in Slots :
       /\ slots[s].pc = "done"
       /\ slots[s].id = 2
       /\ slots[s].req.contentLength = <<"1","0","0","0","1">>
       /\ slots[s].req.origin = ForeignOrigin
       /\ slots[s].resp.status = 413
  /\ ipCalls[Ip1] = <<StartTime>>

(***************************************************************************)
(* C24: the generation call is made at most once per request; when the     *)
(* provider fails, the failure is answered to the caller at once and the   *)
(* call is not made again within the request.                              *)
(***************************************************************************)
C24_GenerationAtMostOnce ==
  \A s \in Slots :
    /\ slots[s].gens <= 1
    /\ (ProviderFailure(slots[s].reply) /\ slots[s].pc # "generate")
         => /\ slots[s].pc = "done"
            /\ slots[s].gens = 1
            /\ slots[s].resp.status \notin {0, 200}
            /\ slots[s].resp.error \notin {"none", "pending"}

\* the provider was out of credit for the second request, which has been
\* answered with an error after one generation call
C24_Witness ==
  \E s \in Slots :
    /\ slots[s].id = 2
    /\ slots[s].pc = "done"
    /\ slots[s].reply = HttpReply(402, "error", 0)
    /\ slots[s].gens = 1
    /\ slots[s].resp.status >= 400

(***************************************************************************)
(* C25: every OPTIONS request, whatever its path, is answered 204 with the *)
(* fixed CORS allow headers, and handling it runs no admission stage and   *)
(* leaves the counters, the ledger and the object store as they were.      *)
(***************************************************************************)
C25_OptionsAnswered204 ==
  [][(served'.n # served.n /\ served'.method = "OPTIONS")
       => /\ served'.status = 204
          /\ served'.cors.allowOrigin = "*"
          /\ served'.cors.allowMethods = "GET, POST, OPTIONS"
          /\ served'.cors.allowHeaders = "Content-Type, X-API-Key"
          /\ UNCHANGED << redis, art, slots, started, ipCalls, globalCalls, generated >>]_vars

(***************************************************************************)
(* C26: in a run with the counter store configured the generation call     *)
(* comes first, then both writes to the object store, then the ledger      *)
(* update, then the response: the ledger has been added to only by runs    *)
(* both of whose artifacts are stored, and never for a generation whose    *)
(* artifacts were not stored.                                              *)
(***************************************************************************)
C26_LedgerAfterBothWrites ==
  \A s \in Slots :
    slots[s].wrote > 0
      => /\ slots[s].gens = 1
         /\ slots[s].putH = "ok" /\ slots[s].putL = "ok"
         /\ IsStoredAt(art, UrlPath(slots[s].historyKey))
         /\ IsStoredAt(art, LatestPath)

(***************************************************************************)
(* C27: the ledger update is a read followed, not atomically, by a write   *)
(* of the value read plus the cost: whatever the ledger holds at the time  *)
(* of the write is replaced.  There is therefore an interleaving of        *)
(* concurrent successful generations after which the ledger of the day is  *)
(* less than the number of successful generations times the cost.          *)
(***************************************************************************)
\* the ledger entry of the day of the runs
TodaysLedger ==
  LET k == <<"spend", <<>>, now \div (24 * 60 * 60 * 1000)>>
  IN IF k \in DOMAIN redis THEN redis[k].val ELSE FZero

C27_LedgerWriteIsReadPlusCost ==
  [][ \A s \in Slots :
        slots'[s].wrote > slots[s].wrote
          => TodaysLedger' = FAdd(slots[s].currentSpend, COST_PER_IMAGE) ]_vars

\* two requests have been answered 200 on a ledger that was empty, nothing is
\* in flight, and the ledger holds the cost of one generation
C27_Witness ==
  /\ Len(successes) = 2
  /\ GeneratedOn(UtcDate(now)) = 2
  /\ \A s \in Slots : slots[s].pc \in {"idle", "done"} /\ slots[s].putH # "pending" /\ slots[s].putL # "pending"
  /\ TodaysLedger = COST_PER_IMAGE

(***************************************************************************)
(* C28: the daily cap is soft.  The budget check lets a request by on the  *)
(* ledger value it reads, whatever other requests are in flight: with the  *)
(* ledger one generation under the cap, two concurrent requests both pass  *)
(* the check before either has recorded its spend, both are generated and  *)
(* charged, and the ledger can end above the cap.                          *)
(***************************************************************************)
C28_BudgetCheckOnValueRead ==
  \A s \in Slots :
    slots[s].genAtCheck >= 0 =>
      IF FGeq(slots[s].dailySpend, DAILY_SPENDING_CAP)
        THEN /\ slots[s].pc = "done"
             /\ slots[s].resp.error = "daily_budget_exceeded"
             /\ slots[s].gens = 0 /\ slots[s].wrote = 0
        ELSE /\ slots[s].resp.error # "daily_budget_exceeded"
             /\ "budget" \in {slots[s].passed[i] : i \in 1..Len(slots[s].passed)}

\* the ledger held 2499 generations when both requests passed the budget
\* check; both have been answered 200 and charged, and the ledger is above
\* the cap
C28_Witness ==
  /\ Len(successes) >= 2
  /\ \A s \in Slots :
       /\ slots[s].pc = "done"
       /\ slots[s].resp.status = 200
       /\ slots[s].genAtCheck = 2499
       /\ slots[s].wrote = 1
  /\ FGeq(TodaysLedger, DAILY_SPENDING_CAP)
  /\ TodaysLedger # DAILY_SPENDING_CAP

(***************************************************************************)
(* C29: in each scope (one per caller, one overall) and each fixed window  *)
(* the counter goes up by exactly one with every request that reaches the  *)
(* limiter and never goes down inside the window, it starts from zero in   *)
(* every new window, and at most 10 requests of a caller and 100 requests  *)
(* overall pass their limiter within one window.                           *)
(***************************************************************************)
\* the counter of a scope in the window of the clock; zero when nothing has
\* been counted in that window
CounterOf(prefix, id, window) ==
  LET k == <<prefix, id, now \div window>>
  IN IF k \in DOMAIN redis THEN redis[k].val ELSE 0

\* the stage is among those the run has passed
HasPassed(sl, stage) == \E i \in 1..Len(sl.passed) : sl.passed[i] = stage

\* each counter is the number of requests that reached its limiter in the
\* window of the clock, and a request passes only as one of the first 10 of
\* its caller, and of the first 100 overall, in its window
CountersAreCallsInWindow ==
  /\ \A ip \in {Ip1, Ip2} :
       CounterOf("rl:ip", ip, 60000) = InWindow(CallsOf(ip), now, 60000)
  /\ CounterOf("rl:global", <<"a","l","l">>, 3600000) = InWindow(globalCalls, now, 3600000)
  /\ \A s \in Slots :
       /\ HasPassed(slots[s], "ip") => slots[s].ipSeen \in 1..10
       /\ HasPassed(slots[s], "global") => slots[s].globalSeen \in 1..100

C29_FixedWindowCounters ==
  [][ /\ CountersAreCallsInWindow'
      /\ \A k \in DOMAIN redis \cap DOMAIN redis' :
           k[1] \in {"rl:ip", "rl:global"}
             => redis'[k].val \in {redis[k].val, redis[k].val + 1}
      /\ \A s \in Slots :
           /\ slots'[s].ipSeen > slots[s].ipSeen
                => CounterOf("rl:ip", slots[s].req.ip, 60000)'
                     = CounterOf("rl:ip", slots[s].req.ip, 60000) + 1
           /\ slots'[s].globalSeen > slots[s].globalSeen
                => CounterOf("rl:global", <<"a","l","l">>, 3600000)'
                     = CounterOf("rl:global", <<"a","l","l">>, 3600000) + 1 ]_vars

\* in a new minute of the same hour the first caller, counted 11 times in the
\* minute before, passes its limiter as the first of the window and is then
\* turned away as the 101st request of the hour
C29_Witness ==
  \E s \in Slots :
    /\ now = StartTime + 30000
    /\ slots[s].req.ip = Ip1
    /\ Len(CallsOf(Ip1)) = 12
    /\ slots[s].ipSeen = 1
    /\ CounterOf("rl:ip", Ip1, 60000) = 1
    /\ slots[s].globalSeen > 100
    /\ slots[s].resp.error = "global_rate_limit_exceeded"

(***************************************************************************)
(* C30: a request turned away by the size check or by the authentication   *)
(* changes no state: neither rate-limit counter is incremented and the     *)
(* ledger and the object store are left as they were, so a caller that is  *)
(* not authenticated uses up nothing of the per-caller or global quota.    *)
(***************************************************************************)
C30_RejectedEarlyChangesNothing ==
  [][ \A s \in Slots :
        (/\ slots[s].pc = "idle"
         /\ slots'[s].pc # "idle"
         /\ (DeclaredTooLarge(slots'[s].req) \/ ~Admitted(slots'[s].req)))
          => /\ slots'[s].pc = "done"
             /\ slots'[s].resp.status \in {413, 401}
             /\ slots'[s].ipSeen = 0 /\ slots'[s].globalSeen = 0
             /\ slots'[s].gens = 0 /\ slots'[s].wrote = 0
             /\ redis' = redis
             /\ art' = art
             /\ ipCalls' = ipCalls /\ globalCalls' = globalCalls
             /\ generated' = generated ]_vars

\* the second request comes from elsewhere without the secret and has been
\* answered 401; the counters hold the one call of the first request
C30_Witness ==
  \E s \in Slots :
    /\ slots[s].id = 2
    /\ slots[s].pc = "done"
    /\ slots[s].resp.status = 401
    /\ slots[s].req.origin = ForeignOrigin
    /\ CounterOf("rl:ip", Ip1, 60000) = 1
    /\ CounterOf("rl:global", <<"a","l","l">>, 3600000) = 1
    /\ Len(successes) = 1

(***************************************************************************)
(* C31: an authenticated request uses up rate-limit quota whatever becomes *)
(* of it later: a request turned away by the global limiter has already    *)
(* been counted in its caller's counter, and a request answered            *)
(* invalid_json, invalid_prompt, prompt_too_long or inappropriate_prompt   *)
(* has been counted in its caller's counter and in the global counter.     *)
(***************************************************************************)
C31_QuotaConsumedBeforeValidation ==
  \A s \in Slots :
    LET sl == slots[s]
    IN /\ sl.resp.error = "global_rate_limit_exceeded"
            => /\ sl.ipSeen >= 1
               /\ CounterOf("rl:ip", sl.req.ip, 60000) = sl.ipSeen
               /\ Len(CallsOf(sl.req.ip)) >= sl.ipSeen
       /\ sl.resp.error \in {"invalid_json", "invalid_prompt", "prompt_too_long",
                             "inappropriate_prompt"}
            => /\ sl.ipSeen >= 1
               /\ sl.globalSeen >= 1
               /\ CounterOf("rl:ip", sl.req.ip, 60000) = sl.ipSeen
               /\ CounterOf("rl:global", <<"a","l","l">>, 3600000) = sl.globalSeen

\* the second request of the caller has been turned away as the 101st of the
\* hour after its first one, for which nothing was generated, was counted as
\* the 100th
C31_Witness ==
  \E s \in Slots :
    /\ slots[s].id = 2
    /\ slots[s].resp.error = "global_rate_limit_exceeded"
    /\ slots[s].ipSeen = 2
    /\ CounterOf("rl:ip", Ip1, 60000) = 2
    /\ CounterOf("rl:global", <<"a","l","l">>, 3600000) = 101
    /\ generated = EmptyStore

(***************************************************************************)
(* C32: with the counter store configured, a global limit of 100 per hour, *)
(* a cost of 0.004 and a cap of 10.00, when every request starts and       *)
(* completes within one UTC day at most 2400 requests pass the global      *)
(* limiter in that day, the ledger of the day stays below the cap, and no  *)
(* request is answered daily_budget_exceeded.                              *)
(***************************************************************************)
\* the most generations the day can have seen: 100 for each full hour gone
\* by, and the requests counted in the current hour up to 100
MostGenerationsToday ==
  LET hour    == (now % (24 * 3600000)) \div 3600000
      counted == InWindow(globalCalls, now, 3600000)
  IN 100 * hour + (IF counted > 100 THEN 100 ELSE counted)

C32_CapOutOfReachWithinADay ==
  /\ \A s \in Slots : slots[s].resp.error # "daily_budget_exceeded"
  /\ ~FGeq(TodaysLedger, DAILY_SPENDING_CAP)
  /\ GeneratedOn(now \div (24 * 3600000)) <= MostGenerationsToday
  /\ MostGenerationsToday <= 2400

\* the 100th request of the last hour has been generated as the 2400th of
\* the day and charged, and the next one is turned away by the global limiter
C32_Witness ==
  \E s \in Slots :
    /\ GeneratedOn(now \div (24 * 3600000)) = 2400
    /\ TodaysLedger = AddCostTimes(2400, FZero)
    /\ slots[s].globalSeen = 101
    /\ slots[s].resp.error = "global_rate_limit_exceeded"

(***************************************************************************)
(* C33: within one request the budget check and the ledger update use the  *)
(* key of the same UTC date: a request whose budget check read the ledger  *)
(* of day D adds its cost to the ledger of day D, also when the generation *)
(* call spans UTC midnight.                                                *)
(***************************************************************************)
C33_SameDateKey ==
  \A s \in Slots :
    slots[s].wrote > 0
      => /\ slots[s].checkKey[1] = "spend"
         /\ slots[s].spendKey = slots[s].checkKey
         /\ slots[s].checkKey \in DOMAIN redis

(***************************************************************************)
(* C34: on every route, POST /api/generate-sculpture included, a call to   *)
(* the paid generation provider is made only in a request that has passed  *)
(* the authentication and, when the counter store is configured, the rate  *)
(* limiters and the budget check.                                          *)
(***************************************************************************)
C34_ProviderCallsBehindAdmission ==
  \A s \in Slots :
    slots[s].gens > 0 =>
      /\ Admitted(slots[s].req)
      /\ HasPassed(slots[s], "auth")
      /\ CounterStore => /\ HasPassed(slots[s], "ip")
                         /\ HasPassed(slots[s], "global")
                         /\ HasPassed(slots[s], "budget")

(***************************************************************************)
(* C35: an admitted request whose body parses as JSON (the value null, an  *)
(* array, an object without a prompt or with a prompt that is not a string *)
(* included) is answered with a structured JSON response, invalid_prompt   *)
(* or the outcome of a later stage, and the handler never ends with an     *)
(* unhandled exception.                                                    *)
(***************************************************************************)
C35_ParsedBodiesAnsweredStructured ==
  \A s \in Slots :
    (slots[s].pc = "done" /\ slots[s].req.body.json \in {"null", "array", "scalar", "object"})
      => /\ slots[s].resp.error # "unhandled_exception"
         /\ slots[s].resp.status = 200 \/ slots[s].resp.error \notin {"none", "pending"}
         /\ (slots[s].req.body.json # "object" \/ slots[s].req.body.t # "string")
              => slots[s].resp.error \in {"request_too_large", "unauthorized",
                                          "rate_limit_exceeded", "global_rate_limit_exceeded",
                                          "daily_budget_exceeded", "invalid_prompt"}

(***************************************************************************)
(* C36: when no shared secret is configured (DEMO_API_KEY is unset), a     *)
(* request that is not same-origin is not admitted by the authentication,  *)
(* whatever it presents in X-API-Key, nothing and the empty value          *)
(* included.                                                               *)
(***************************************************************************)
C36_NoSecretNoKeyAdmission ==
  \A s \in Slots :
    (/\ slots[s].pc # "idle"
     /\ env.DEMO_API_KEY = Null
     /\ ~DeclaredTooLarge(slots[s].req)
     /\ ~SameOriginRequest(slots[s].req))
      => /\ slots[s].pc = "done"
         /\ slots[s].resp.status = 401
         /\ slots[s].resp.error = "unauthorized"
         /\ slots[s].ipSeen = 0 /\ slots[s].gens = 0


(***************************************************************************)
(* C37: GET /api/images and GET /api/images/latest never return            *)
(* art/latest.jpg, and order the history artifacts by upload time, newest  *)
(* first.  /api/images/latest returns the listed history artifact with the *)
(* greatest upload time, and answers 404 no_images_found exactly when no   *)
(* history artifact is listed.  The stores of SpecImages hold fewer        *)
(* objects than either route lists, so every history artifact is listed.   *)
(***************************************************************************)
\* the history artifacts in the store: every object under art/ but latest.jpg
HistoryArtifacts ==
  {k \in DOMAIN art : k[1] = "art/" /\ k # << "art/latest.jpg", <<>> >>}

\* what an answer returns is a history artifact as the store holds it
ReturnsArtifact(entry) ==
  /\ entry.key \in HistoryArtifacts
  /\ entry.uploaded = art[entry.key].uploaded
  /\ entry.size = art[entry.key].size

C37_ListingsNewestFirstWithoutLatest ==
  [][ (served'.n # served.n /\ served'.status # 500) =>
        LET answer == served'
            list   == answer.listing
        IN /\ \A i \in 1..Len(list) : ReturnsArtifact(list[i])
           /\ \A i \in 1..Len(list) : \A j \in (i + 1)..Len(list) :
                list[i].uploaded >= list[j].uploaded
           /\ answer.path = << "/", "api/images", <<>> >> =>
                /\ answer.status = 200
                /\ {list[i].key : i \in 1..Len(list)} = HistoryArtifacts
                /\ Len(list) = Cardinality(HistoryArtifacts)
           /\ answer.path = << "/", "api/images/latest", <<>> >> =>
                /\ (answer.status = 404 /\ answer.body = "no_images_found")
                     <=> HistoryArtifacts = {}
                /\ HistoryArtifacts # {} =>
                     /\ answer.status = 200
                     /\ Len(list) = 1
                     /\ \A k \in HistoryArtifacts :
                          art[k].uploaded <= list[1].uploaded ]_vars

\* both routes have answered from a store that holds art/latest.jpg and two
\* history artifacts of which the one with the later key was uploaded first:
\* the last answer is the one of /api/images/latest
C37_Witness ==
  /\ served.n = 2
  /\ served.path = << "/", "api/images/latest", <<>> >>
  /\ served.status = 200
  /\ << "art/latest.jpg", <<>> >> \in DOMAIN art
  /\ \E a \in HistoryArtifacts : \E b \in HistoryArtifacts :
       /\ a[2] # b[2]
       /\ served.listing[1].key = a
       /\ art[a].uploaded > art[b].uploaded
       /\ \E i \in 1..5 : /\ a[2][i] < b[2][i]
                          /\ \A j \in 1..(i - 1) : a[2][j] = b[2][j]

====
